---- MODULE Spec2Model ----
(***************************************************************************)
(* Magic Styles: a design-token plugin for the Framer host.                *)
(*                                                                         *)
(* The model covers the main component (token state, host detection,      *)
(* startup load, apply run), the project scanner, the token importer, the  *)
(* token grid editor, the design-system editor and the contrast engine.   *)
(*                                                                         *)
(* Strings are sequences of atoms: an atom is a maximal piece of text the  *)
(* program never looks inside ("Primary", "Hover", "/", " ").  Colour      *)
(* strings are sequences of single characters.                             *)
(***************************************************************************)
EXTENDS Integers, Sequences, FiniteSets, TLC

\* ------------------------------------------------------------------ bounds
MaxRuns == 2
MaxLoads == 1
MaxScans == 2
MaxOps == 2
MaxTextOps == 3
MaxClock == 1
MaxGenOps == 3

\* ------------------------------------------------------------- text atoms
Cat(a, b) == a \o b

Includes(s, atom) == \E i \in 1..Len(s) : s[i] = atom

AtomLower ==
  [ Primary |-> "primary", Secondary |-> "secondary", Brand |-> "brand",
    Text |-> "text", Body |-> "body", Background |-> "background",
    Base |-> "base", Hover |-> "hover", Pressed |-> "pressed",
    Colors |-> "colors", Other |-> "other", Neutral |-> "neutral",
    Semantic |-> "semantic", Surface |-> "surface" ]

LowerAtom(a) == IF a \in DOMAIN AtomLower THEN AtomLower[a] ELSE a

ToLowerCase(s) == [i \in 1..Len(s) |-> LowerAtom(s[i])]

\* s.split('/')[0]
SplitHead(s) ==
  IF Includes(s, "/")
    THEN SubSeq(s, 1, (CHOOSE i \in 1..Len(s) :
                          s[i] = "/" /\ \A j \in 1..(i - 1) : s[j] # "/") - 1)
    ELSE s

\* s.split('/')[1]; <<>> stands for undefined (filtered out by Boolean)
SplitSecond(s) ==
  IF ~Includes(s, "/") THEN <<>>
  ELSE LET i == CHOOSE k \in 1..Len(s) : s[k] = "/" /\ \A j \in 1..(k - 1) : s[j] # "/"
           rest == SubSeq(s, i + 1, Len(s))
       IN SplitHead(rest)

\* Collation order of the atoms, as String.prototype.localeCompare ranks them
\* (white space and punctuation before letters, letters alphabetically).
CollationOrder ==
  << " ", "-", "/", "background", "Background", "Backgrounds", "base", "Base",
     "bg", "body", "Body", "Border", "Borders", "brand", "Brand", "colors", "Colors", "hover", "Hover", "neutral",
     "Neutral", "other", "Other", "pressed", "Pressed", "primary", "Primary",
     "secondary", "Secondary", "semantic", "Semantic", "surface", "Surface",
     "text", "Text" >>

AtomRank(a) == CHOOSE i \in 1..Len(CollationOrder) : CollationOrder[i] = a

RECURSIVE LocaleCompare(_, _)
\* negative, zero or positive, like a.localeCompare(b)
LocaleCompare(a, b) ==
  IF a = <<>> /\ b = <<>> THEN 0
  ELSE IF a = <<>> THEN -1
  ELSE IF b = <<>> THEN 1
  ELSE IF AtomRank(Head(a)) # AtomRank(Head(b))
         THEN AtomRank(Head(a)) - AtomRank(Head(b))
         ELSE LocaleCompare(Tail(a), Tail(b))

\* ------------------------------------------------------------ colour text
HexLower == << "0","1","2","3","4","5","6","7","8","9","a","b","c","d","e","f" >>
HexUpper == << "0","1","2","3","4","5","6","7","8","9","A","B","C","D","E","F" >>

IsHexDigit(ch) == \E i \in 1..16 : HexLower[i] = ch \/ HexUpper[i] = ch

HexVal(ch) == (CHOOSE i \in 1..16 : HexLower[i] = ch \/ HexUpper[i] = ch) - 1

ToHex2(n) == << HexLower[(n \div 16) + 1], HexLower[(n % 16) + 1] >>

White    == << "#","f","f","f","f","f","f" >>
Black    == << "#","0","0","0","0","0","0" >>
Gray800  == << "#","1","f","2","9","3","7" >>
Gray50   == << "#","f","9","f","a","f","b" >>
Gray900  == << "#","1","1","1","8","2","7" >>
Indigo   == << "#","6","3","6","6","f","1" >>
IndigoLt == << "#","8","1","8","c","f","8" >>
Violet   == << "#","8","b","5","c","f","6" >>
VioletLt == << "#","a","7","8","b","f","a" >>
Amber    == << "#","f","5","9","e","0","b" >>
UpperRed == << "#","F","F","0","0","0","0" >>
ShortHex == << "#","f","f","f" >>
NotHex   == << "r","e","d" >>
Empty    == << >>

\* /^#[0-9A-F]{6}$/i
IsValidHex(hex) ==
  /\ Len(hex) = 7
  /\ hex[1] = "#"
  /\ \A i \in 2..7 : IsHexDigit(hex[i])

\* ------------------------------------------------------- colour arithmetic
\* hex.replace('#', ''): the first '#' is removed, wherever it is
StripHash(hex) ==
  IF Includes(hex, "#")
    THEN LET i == CHOOSE k \in 1..Len(hex) :
                    hex[k] = "#" /\ \A j \in 1..(k - 1) : hex[j] # "#"
         IN SubSeq(hex, 1, i - 1) \o SubSeq(hex, i + 1, Len(hex))
    ELSE hex

RECURSIVE HexPrefixValue(_, _)
HexPrefixValue(s, acc) ==
  IF s = <<>> \/ ~IsHexDigit(Head(s)) THEN acc
  ELSE HexPrefixValue(Tail(s), acc * 16 + HexVal(Head(s)))

\* parseInt(s, 16): the longest prefix of hex digits; -1 stands for NaN
ParseIntHex(s) ==
  IF s = <<>> \/ ~IsHexDigit(Head(s)) THEN -1 ELSE HexPrefixValue(s, 0)

\* the bit operators turn NaN into 0
ToInt32(num) == IF num < 0 THEN 0 ELSE num

\* the percentages within -300..300 whose product 2.55 * percent, in double
\* precision, falls just below the half it would reach exactly
HalfLost == { 50, 90, 170, 190 }

\* Math.round(2.55 * percent): the double product, rounded half up
RoundAmount(percent) ==
  IF percent \in HalfLost THEN (255 * percent + 50) \div 100 - 1
  ELSE (255 * percent + 50) \div 100

\* a clamp that wraps around instead
ClampChannelWrap(x) == x % 256

ClampChannel(x) == IF x < 255 THEN (IF x < 1 THEN 0 ELSE x) ELSE 255

adjustBrightness(hex, percent) ==
  LET num == ToInt32(ParseIntHex(StripHash(hex)))
      amt == RoundAmount(percent)
      R == (num \div 65536) + amt
      G == ((num \div 256) % 256) + amt
      B == (num % 256) + amt
  IN << "#" >> \o ToHex2(ClampChannel(R)) \o ToHex2(ClampChannel(G))
              \o ToHex2(ClampChannel(B))

\* /^#?([a-f\d]{2})([a-f\d]{2})([a-f\d]{2})$/i
MatchesRgbPattern(hex) ==
  LET d == IF hex # <<>> /\ Head(hex) = "#" THEN Tail(hex) ELSE hex
  IN Len(d) = 6 /\ \A i \in 1..6 : IsHexDigit(d[i])

RgbDigits(hex) == IF Head(hex) = "#" THEN Tail(hex) ELSE hex

Channel(hex, k) ==
  HexVal(RgbDigits(hex)[2 * k - 1]) * 16 + HexVal(RgbDigits(hex)[2 * k])

\* ------------------------------------------------------------------ tokens
Token(n, l, d, c) == [name |-> n, light |-> l, dark |-> d, category |-> c]

\* a || b on strings: the empty string is falsy
OrElse(a, b) == IF a # <<>> THEN a ELSE b

categoryPriority(category) ==
  IF category = << "Brand" >> THEN 1
  ELSE IF category = << "Text" >> THEN 2
  ELSE IF category = << "Background" >> THEN 3
  ELSE IF category = << "Semantic" >> THEN 4
  ELSE IF category = << "Neutral" >> THEN 5
  ELSE 99

\* the comparator of sortTokens: negative, zero or positive
CompareTokens(a, b) ==
  IF categoryPriority(a.category) # categoryPriority(b.category)
    THEN categoryPriority(a.category) - categoryPriority(b.category)
    ELSE LocaleCompare(a.name, b.name)

RECURSIVE InsertSorted(_, _)
\* stable insertion: t goes after every element that does not compare greater
InsertSorted(sorted, t) ==
  IF sorted = <<>> THEN << t >>
  ELSE IF CompareTokens(Head(sorted), t) <= 0
         THEN << Head(sorted) >> \o InsertSorted(Tail(sorted), t)
         ELSE << t >> \o sorted

RECURSIVE SortFrom(_, _)
SortFrom(todo, sorted) ==
  IF todo = <<>> THEN sorted
  ELSE SortFrom(Tail(todo), InsertSorted(sorted, Head(todo)))

\* Array.prototype.sort with the comparator of sortTokens (a stable sort);
\* the result is also the new content of the array that was passed in
sortTokens(tokensToSort) == SortFrom(tokensToSort, <<>>)

\* `${token.category}/${token.name}`, or the bare name without a category
StyleName(token) ==
  IF token.category # <<>>
    THEN Cat(Cat(token.category, << "/" >>), token.name)
    ELSE token.name

\* ProjectScanner.categorizeStyle
categorizeStyle(styleName, path) ==
  LET fullName == ToLowerCase(Cat(Cat(path, << "/" >>), styleName))
  IN IF Includes(fullName, "brand") \/ Includes(fullName, "primary")
          \/ Includes(fullName, "secondary") THEN << "Brand" >>
     ELSE IF Includes(fullName, "text") \/ Includes(fullName, "foreground")
       THEN << "Text" >>
     ELSE IF Includes(fullName, "background") \/ Includes(fullName, "surface")
          \/ Includes(fullName, "bg") THEN << "Background" >>
     ELSE IF Includes(fullName, "neutral") \/ Includes(fullName, "gray")
          \/ Includes(fullName, "grey") THEN << "Neutral" >>
     ELSE IF Includes(fullName, "semantic") \/ Includes(fullName, "success")
          \/ Includes(fullName, "error") \/ Includes(fullName, "warning")
       THEN << "Semantic" >>
     ELSE IF Includes(fullName, "border") \/ Includes(fullName, "divider")
       THEN << "Border" >>
     ELSE << "Other" >>

\* the mapping of a host style to a token in loadFramerStyles
LoadedToken(style) ==
  Token(style.name,
        OrElse(style.light, White),
        OrElse(style.dark, OrElse(style.light, White)),
        IF Includes(style.name, "/") THEN SplitHead(style.name) ELSE << "Colors" >>)

MapSeq(s, Op(_)) == [i \in 1..Len(s) |-> Op(s[i])]

\* --------------------------------------------------------------- host data
HostStyle(n, l, d, p) ==
  [name |-> n, light |-> l, dark |-> d, path |-> p, hasSetAttributes |-> TRUE]

\* colour styles the host document may hold when the plugin starts
HostBrandPrimary == HostStyle(<< "Brand", "/", "Primary" >>, Indigo, IndigoLt,
                              << "/", "Brand", "/", "Primary" >>)
HostTextBody == HostStyle(<< "Text", "/", "Body" >>, Gray800, Empty,
                          << "/", "Text", "/", "Body" >>)
HostPlain == HostStyle(<< "Surface" >>, Empty, Empty, Empty)

HostChoices ==
  { << >>, << HostTextBody, HostBrandPrimary >>, << HostPlain, HostBrandPrimary >> }

\* the text styles of the host document (the plugin only lists them)
hostTextStyles == << >>

\* mockFramer.getColorStyles of the project scanner
mockColorStyles ==
  << HostStyle(<< "Primary" >>, Indigo, IndigoLt, << "/", "Brand", "/", "Primary" >>),
     HostStyle(<< "Secondary" >>, Violet, VioletLt, << "/", "Brand", "/", "Secondary" >>),
     HostStyle(<< "Text" >>, Gray800, Gray50, << "/", "Text", "/", "Body" >>),
     HostStyle(<< "Background" >>, White, Gray900, << "/", "Background", "/", "Base" >>) >>

NoArg == [name |-> << >>, light |-> << >>, dark |-> << >>]

\* a call of the host API: who made it (kind, id), the number n of the token it
\* writes (0 for a read), the method and its argument
HostCall(kind, id, n, op, arg) ==
  [kind |-> kind, id |-> id, n |-> n, op |-> op, arg |-> arg]

StyleNames(styles) == { styles[i].name : i \in 1..Len(styles) }

\* styles.find(s => s.name === name): index of the first match, 0 if none
FindStyle(styles, name) ==
  IF name \in StyleNames(styles)
    THEN CHOOSE i \in 1..Len(styles) :
           styles[i].name = name /\ \A j \in 1..(i - 1) : styles[j].name # name
    ELSE 0

\* what the host document holds once a write call has succeeded
HostAfterWrite(styles, call) ==
  IF call.op = "createColorStyle"
    THEN Append(styles, HostStyle(call.arg.name, call.arg.light, call.arg.dark, Empty))
  ELSE IF call.op = "setAttributes" /\ FindStyle(styles, call.arg.name) # 0
    THEN [styles EXCEPT ![FindStyle(styles, call.arg.name)] =
            [@ EXCEPT !.light = call.arg.light, !.dark = call.arg.dark]]
  ELSE styles

\* ------------------------------------------------------------------- state
VARIABLES
  apiWhere,            \* where the injected API object is: "none", "window", "parent"
  hostStyles,          \* the colour styles of the host document
  pending,             \* the host (and mock) calls that have not settled yet
  mounted,             \* the mount effect of MagicStyles has run
  isFramerReady,
  tokens,
  activeTab,
  showInitialChoice,
  msgCount,            \* PLUGIN_READY messages received
  runs,                \* the invocations of applyStylesToFramer, in order
  isScanning,
  scanResult,
  selectedEnhancements,
  scanCur,             \* id of the scan the mounted scanner waits for, 0 if none
  scanWait,            \* the reads that scan still waits for
  scanGot,             \* the colour styles that scan has received
  scanSeq,             \* scans started so far
  delayed,             \* design-system editor operations inside their delay
  handover,            \* the last array handed to the main component
  isProcessing,        \* the importer reads a file
  importError,         \* the importer's error message, << >> if none
  importFile,          \* the file the importer reads
  lastImport,          \* what the last finished handleFile did
  textStyles,          \* the text styles of the working set
  typeScaleRatio,      \* the ratio selected in the text-style manager
  baseFontSize,        \* the base size entered in the text-style manager
  clock,               \* what Date.now() returns
  textOps,             \* text-style operations still allowed by the bound
  smart,               \* the smart generator: isGenerating, and the text styles
                       \* its handler was started with
  generator,           \* the style generator: mounted, colors, generationType,
                       \* isDarkMode, generatedTokens, its last generations,
                       \* and the operations the bound still allows
  calc,                \* the last evaluation of a function: name, input, output
  opsLeft              \* user operations still allowed by the bound

hostVars == << apiWhere, hostStyles >>
mainVars == << mounted, isFramerReady, tokens, activeTab, showInitialChoice, msgCount >>
scanVars == << isScanning, scanResult, selectedEnhancements, scanCur, scanWait,
               scanGot, scanSeq >>
importVars == << isProcessing, importError, importFile, lastImport >>
\* what the text-style manager and the smart generator leave alone
appStill == << hostVars, pending, mainVars, runs, scanVars, delayed, handover,
               importVars, opsLeft >>
textVars == << textStyles, typeScaleRatio, baseFontSize, clock, textOps, smart >>
vars == << apiWhere, hostStyles, pending, mounted, isFramerReady, tokens, activeTab,
           showInitialChoice, msgCount, runs, isScanning, scanResult,
           selectedEnhancements, scanCur, scanWait, scanGot, scanSeq, delayed,
           handover, isProcessing, importError, importFile, lastImport, textStyles,
           typeScaleRatio, baseFontSize, clock, textOps, smart, generator, calc,
           opsLeft >>

\* getFramerAPI() of the main component finds an API object
getFramerAPI == apiWhere # "none"

\* (window as any).framer, as the scanner and the generator test it
isFramerEnvironment == apiWhere = "window"

NoScanResult ==
  [present |-> FALSE, colorStyles |-> << >>, textStyles |-> << >>,
   folders |-> << >>, issues |-> << >>]

NoHandover == [before |-> << >>, after |-> << >>]

NoCalc == [fn |-> "none"]

NoSmart == [isGenerating |-> FALSE, textStyles |-> << >>]

NoFile == [json |-> FALSE, colors |-> << >>, entries |-> << >>]

NoImport ==
  [done |-> FALSE, file |-> NoFile, errors |-> 0, calls |-> 0,
   delivered |-> << >>, before |-> << >>, after |-> << >>]

ScannerMounted == ~showInitialChoice /\ activeTab = "scanner"
EditorMounted == ~showInitialChoice /\ activeTab = "edit"

Init ==
  /\ apiWhere \in {"none", "window", "parent"}
  /\ hostStyles \in HostChoices
  /\ pending = {}
  /\ mounted = FALSE
  /\ isFramerReady = FALSE
  /\ tokens = << >>
  /\ activeTab = "scanner"
  /\ showInitialChoice = TRUE
  /\ msgCount = 0
  /\ runs = << >>
  /\ isScanning = FALSE
  /\ scanResult = NoScanResult
  /\ selectedEnhancements = {}
  /\ scanCur = 0
  /\ scanWait = {}
  /\ scanGot = << >>
  /\ scanSeq = 0
  /\ delayed = {}
  /\ handover = NoHandover
  /\ isProcessing = FALSE
  /\ importError = << >>
  /\ importFile = NoFile
  /\ lastImport = NoImport
  /\ textStyles = << >>
  /\ typeScaleRatio = 1250
  /\ baseFontSize = 16
  /\ clock = 0
  /\ textOps = MaxTextOps
  /\ smart = NoSmart
  /\ generator = [mounted |-> FALSE, colors |-> << Indigo, Violet, Amber >>,
                  generationType |-> "complete", isDarkMode |-> FALSE,
                  generatedTokens |-> << >>, calls |-> << >>, left |-> MaxGenOps]
  /\ calc = NoCalc
  /\ opsLeft = MaxOps

GeneratorMounted == ~showInitialChoice /\ activeTab = "generator"

\* The blocking "Not in Framer Environment" screen is not shown
UiShown == mounted /\ (isFramerReady \/ getFramerAPI)

\* ------------------------------------------------- mounting and unmounting
\* the two reads scanProject starts with Promise.all
ScanCalls(id) ==
  IF isFramerEnvironment
    THEN { HostCall("scan", id, 0, "getColorStyles", NoArg),
           HostCall("scan", id, 0, "getTextStyles", NoArg) }
    ELSE { HostCall("mock", id, 0, "getColorStyles", NoArg),
           HostCall("mock", id, 0, "getTextStyles", NoArg) }

\* getFramerFonts, started when the style generator mounts
FontCalls ==
  IF isFramerEnvironment THEN { HostCall("fonts", 0, 0, "getAvailableFonts", NoArg) }
  ELSE {}

\* loadFramerStyles up to its await
LoadCalls(id) ==
  IF getFramerAPI THEN { HostCall("load", id, 0, "getColorStyles", NoArg) } ELSE {}

Orphaned(ops) == { [d EXCEPT !.live = FALSE] : d \in ops }

\* What rendering with the new showInitialChoice, activeTab and isFramerReady
\* does to the child components: the scanner's effect starts a scan when it
\* mounts ready or becomes ready, an unmounted component loses its state, the
\* generator's mount effect asks for the fonts.
Render(show2, tab2, ready2, pendingBase, delayedBase) ==
  LET scanner2 == ~show2 /\ tab2 = "scanner"
      editor2 == ~show2 /\ tab2 = "edit"
      generator2 == ~show2 /\ tab2 = "generator"
      startScan == scanner2 /\ ready2 /\ (~ScannerMounted \/ ~isFramerReady)
      startFonts == generator2 /\ ~GeneratorMounted
  IN /\ startScan => scanSeq < MaxScans
     /\ isScanning' = IF startScan THEN TRUE
                      ELSE IF scanner2 /\ ScannerMounted THEN isScanning ELSE FALSE
     /\ scanResult' = IF scanner2 /\ ScannerMounted THEN scanResult ELSE NoScanResult
     /\ selectedEnhancements' =
          IF scanner2 /\ ScannerMounted THEN selectedEnhancements ELSE {}
     /\ scanCur' = IF startScan THEN scanSeq + 1
                   ELSE IF scanner2 /\ ScannerMounted THEN scanCur ELSE 0
     /\ scanWait' = IF startScan THEN {"getColorStyles", "getTextStyles"}
                    ELSE IF scanner2 /\ ScannerMounted THEN scanWait ELSE {}
     /\ scanGot' = IF scanner2 /\ ScannerMounted /\ ~startScan THEN scanGot ELSE << >>
     /\ scanSeq' = IF startScan THEN scanSeq + 1 ELSE scanSeq
     /\ delayed' = IF EditorMounted /\ ~editor2 THEN Orphaned(delayedBase)
                   ELSE delayedBase
     /\ pending' = pendingBase
                     \cup (IF startScan THEN ScanCalls(scanSeq + 1) ELSE {})
                     \cup (IF startFonts THEN FontCalls ELSE {})

\* ------------------------------------------------------- main component
\* the mount effect: detect the API, mark ready and load the host's styles
Mount ==
  /\ ~mounted
  /\ mounted' = TRUE
  /\ isFramerReady' = getFramerAPI
  /\ Render(showInitialChoice, activeTab, getFramerAPI,
            pending \cup LoadCalls(0), delayed)
  /\ UNCHANGED << hostVars, importVars, textVars, generator, calc, tokens, activeTab, showInitialChoice, msgCount, runs,
                  handover, opsLeft >>

\* handlePluginReady on a PLUGIN_READY message
PluginReady ==
  /\ mounted
  /\ msgCount < MaxLoads
  /\ msgCount' = msgCount + 1
  /\ isFramerReady' = TRUE
  /\ Render(showInitialChoice, activeTab, TRUE,
            pending \cup LoadCalls(msgCount + 1), delayed)
  /\ UNCHANGED << hostVars, importVars, textVars, generator, calc, mounted, tokens, activeTab, showInitialChoice, runs,
                  handover, opsLeft >>

\* loadFramerStyles after getColorStyles has resolved
LoadFulfil(c) ==
  /\ c \in pending /\ c.kind = "load"
  /\ LET framerTokens == MapSeq(hostStyles, LoadedToken)
     IN IF Len(framerTokens) > 0
          THEN /\ tokens' = framerTokens
               /\ activeTab' = "edit"
               /\ showInitialChoice' = FALSE
               /\ Render(FALSE, "edit", isFramerReady, pending \ {c}, delayed)
          ELSE /\ pending' = pending \ {c}
               /\ UNCHANGED << tokens, activeTab, showInitialChoice, scanVars, delayed >>
  /\ UNCHANGED << hostVars, importVars, textVars, generator, calc, mounted, isFramerReady, msgCount, runs, handover, opsLeft >>

\* loadFramerStyles when getColorStyles rejects: logged, nothing else
LoadReject(c) ==
  /\ c \in pending /\ c.kind = "load"
  /\ pending' = pending \ {c}
  /\ UNCHANGED << hostVars, importVars, textVars, generator, calc, mainVars, runs, scanVars, delayed, handover,
                  opsLeft >>

\* the two cards of the initial choice
ChooseCard(tab) ==
  /\ UiShown /\ showInitialChoice
  /\ tab \in {"scanner", "generator"}
  /\ showInitialChoice' = FALSE
  /\ activeTab' = tab
  /\ Render(FALSE, tab, isFramerReady, pending, delayed)
  /\ UNCHANGED << hostVars, importVars, textVars, generator, calc, mounted, isFramerReady, tokens, msgCount, runs,
                  handover, opsLeft >>

\* the navigation bar; the Edit entry exists only with tokens
SetActiveTab(tab) ==
  /\ UiShown /\ ~showInitialChoice
  /\ tab \in {"scanner", "generator", "edit"}
  /\ tab # activeTab
  /\ tab = "edit" => Len(tokens) > 0
  /\ opsLeft > 0
  /\ opsLeft' = opsLeft - 1
  /\ activeTab' = tab
  /\ Render(FALSE, tab, isFramerReady, pending, delayed)
  /\ UNCHANGED << hostVars, importVars, textVars, generator, calc, mounted, isFramerReady, tokens, showInitialChoice,
                  msgCount, runs, handover >>

\* getAvailableFonts settles either way: the generator falls back to its list
FontsSettle(c) ==
  /\ c \in pending /\ c.kind = "fonts"
  /\ pending' = pending \ {c}
  /\ UNCHANGED << hostVars, importVars, textVars, generator, calc, mainVars, runs, scanVars, delayed, handover,
                  opsLeft >>

\* ----------------------------------------------------- applyStylesToFramer
NewRun(pc, ready, toks) ==
  [pc |-> pc, ready |-> ready, toks |-> toks, existing |-> << >>, listed |-> FALSE,
   i |-> 0,
   createdCount |-> 0, updatedCount |-> 0, calls |-> << >>, notes |-> << >>,
   failed |-> FALSE]

\* a guard that forgets the empty token set (sensitivity variant of ApplyGuard)
ApplyGuardReadyOnly(ready, toks) == ready

\* the guards at the top of applyStylesToFramer pass
ApplyGuard(ready, toks) == ready /\ Len(toks) # 0

WriteArg(styleName, token) ==
  [name |-> styleName, light |-> token.light, dark |-> token.dark]

\* the success notification after the loop
NotifySuccess(run) == [run EXCEPT !.pc = "done", !.notes = Append(@, "success")]

\* a catch block that notifies nobody (sensitivity variant of CatchFailure)
CatchFailureSilent(run) == [run EXCEPT !.pc = "done", !.failed = TRUE]

\* the catch block: one error notification, the loop is left
CatchFailure(run) ==
  [run EXCEPT !.pc = "done", !.failed = TRUE, !.notes = Append(@, "error")]

\* a loop body that does not await: it issues the create of token i together
\* with the write of the token after it (sensitivity variant of IssueCreate)
IssueCreateAhead(run, rid, i) ==
  LET styleName == StyleName(run.toks[i])
      ahead == IF i < Len(run.toks)
                 THEN { HostCall("run", rid, i + 1, "createColorStyle",
                                 WriteArg(StyleName(run.toks[i + 1]), run.toks[i + 1])) }
                 ELSE {}
  IN [run |-> [run EXCEPT !.pc = "await", !.i = i,
                 !.calls = Append(@, [op |-> "createColorStyle", name |-> styleName,
                                      token |-> i])],
      calls |-> { HostCall("run", rid, i, "createColorStyle",
                           WriteArg(styleName, run.toks[i])) } \cup ahead]

\* the write the loop body issues for a token with a new name
IssueCreate(run, rid, i) ==
  LET styleName == StyleName(run.toks[i])
  IN [run |-> [run EXCEPT !.pc = "await", !.i = i,
                 !.calls = Append(@, [op |-> "createColorStyle", name |-> styleName,
                                      token |-> i])],
      calls |-> { HostCall("run", rid, i, "createColorStyle",
                           WriteArg(styleName, run.toks[i])) }]

\* the write the loop body issues for a token whose name exists
IssueUpdate(run, rid, i) ==
  LET styleName == StyleName(run.toks[i])
  IN [run |-> [run EXCEPT !.pc = "await", !.i = i,
                 !.calls = Append(@, [op |-> "setAttributes", name |-> styleName,
                                      token |-> i])],
      calls |-> { HostCall("run", rid, i, "setAttributes",
                           WriteArg(styleName, run.toks[i])) }]

\* existingStyleNames.has(styleName)
NameExists(run, i) == StyleName(run.toks[i]) \in StyleNames(run.existing)

RECURSIVE Advance(_, _, _)
\* the for loop from token i up to its next await, or to the notification
Advance(run, rid, i) ==
  IF i > Len(run.toks) THEN [run |-> NotifySuccess([run EXCEPT !.i = i]), calls |-> {}]
  ELSE IF ~NameExists(run, i) THEN IssueCreate(run, rid, i)
  ELSE LET existingStyle == run.existing[FindStyle(run.existing, StyleName(run.toks[i]))]
       IN IF existingStyle.hasSetAttributes
            THEN IssueUpdate(run, rid, i)
            ELSE Advance(run, rid, i + 1)

\* The Apply button of the header (shown with tokens, disabled until ready)
\* or of the design-system editor (always enabled)
ApplyAvailable ==
  /\ UiShown
  /\ \/ Len(tokens) > 0 /\ isFramerReady
     \/ EditorMounted

\* applyStylesToFramer up to its first await
ApplyStart ==
  /\ ApplyAvailable
  /\ Len(runs) < MaxRuns
  /\ opsLeft > 0
  /\ opsLeft' = opsLeft - 1
  /\ LET rid == Len(runs) + 1
     IN IF ~ApplyGuard(isFramerReady, tokens)
          THEN /\ runs' = Append(runs, NewRun("skipped", isFramerReady, tokens))
               /\ pending' = pending
        ELSE IF ~getFramerAPI
          THEN /\ runs' = Append(runs, NewRun("noapi", isFramerReady, tokens))
               /\ pending' = pending
        ELSE /\ runs' = Append(runs,
                   [NewRun("await", isFramerReady, tokens) EXCEPT
                      !.calls = << [op |-> "getColorStyles", name |-> << >>,
                                    token |-> 0] >>])
             /\ pending' = pending \cup { HostCall("run", rid, 0, "getColorStyles", NoArg) }
  /\ UNCHANGED << hostVars, importVars, textVars, generator, calc, mainVars, scanVars, delayed, handover >>

\* the run continues after the host call it awaits has resolved
RunFulfil(c) ==
  /\ c \in pending /\ c.kind = "run"
  /\ LET run == runs[c.id]
         counted ==
           IF c.op = "getColorStyles"
             THEN [run EXCEPT !.existing = hostStyles, !.listed = TRUE]
           ELSE IF c.op = "createColorStyle"
             THEN [run EXCEPT !.createdCount = @ + 1]
           ELSE [run EXCEPT !.updatedCount = @ + 1]
         adv == Advance(counted, c.id, run.i + 1)
     IN /\ runs' = [runs EXCEPT ![c.id] = adv.run]
        /\ pending' = (pending \ {c}) \cup adv.calls
  /\ hostStyles' = HostAfterWrite(hostStyles, c)
  /\ UNCHANGED << apiWhere, importVars, textVars, generator, calc, mainVars, scanVars, delayed, handover, opsLeft >>

\* the host call the run awaits rejects: the catch block runs
RunReject(c) ==
  /\ c \in pending /\ c.kind = "run"
  /\ runs' = [runs EXCEPT ![c.id] = CatchFailure(runs[c.id])]
  /\ pending' = pending \ {c}
  /\ UNCHANGED << hostVars, importVars, textVars, generator, calc, mainVars, scanVars, delayed, handover, opsLeft >>

\* the run applies the working set that loadFramerStyles makes of the styles
\* the host listed to it
AppliesLoadedSet(run) ==
  /\ run.listed
  /\ Len(run.toks) > 0
  /\ run.toks = MapSeq(run.existing, LoadedToken)

\* C25: a run that applies the unedited working set loaded from the host's
\* styles issues no createColorStyle.
C25_LoadedSetOnlyUpdates ==
  \A r \in 1..Len(runs) :
    AppliesLoadedSet(runs[r]) =>
      \A k \in 1..Len(runs[r].calls) : runs[r].calls[k].op # "createColorStyle"

\* the names for which some run has issued a createColorStyle
CreatesIssued(rs) ==
  UNION { { rs[r].calls[k].name :
              k \in { j \in 1..Len(rs[r].calls) : rs[r].calls[j].op = "createColorStyle" } } :
          r \in 1..Len(rs) }

\* C26: a createColorStyle is issued only for a name that the host document
\* does not hold at that moment and for which no create was issued before, by
\* this run or by another one.
C26_CreateOnlyNewNames ==
  [][\A c \in pending' \ pending :
       c.op = "createColorStyle"
         => c.arg.name \notin (StyleNames(hostStyles') \cup CreatesIssued(runs))]_vars

\* C27: the token array of the main component is in the order of sortTokens:
\* no token is followed by one that compares lower.
C27_TokensSorted ==
  \A i \in 1..Len(tokens) : \A j \in 1..Len(tokens) :
    i < j => CompareTokens(tokens[i], tokens[j]) <= 0

\* ------------------------------------------------------------ handlers
\* handleTokenUpdate: sortTokens sorts the array it is given
HandleTokenUpdate(updatedTokens) ==
  /\ tokens' = sortTokens(updatedTokens)
  /\ handover' = [before |-> updatedTokens, after |-> sortTokens(updatedTokens)]

\* --------------------------------------------------------- project scanner
\* s.includes(sub) for a text of several atoms
IncludesSeq(s, sub) ==
  \E k \in 0..(Len(s) - Len(sub)) : SubSeq(s, k + 1, k + Len(sub)) = sub

RECURSIVE Unique(_, _)
\* Array.from(new Set(values)): first occurrences, in order
Unique(values, seen) ==
  IF values = << >> THEN << >>
  ELSE IF Head(values) \in seen THEN Unique(Tail(values), seen)
  ELSE << Head(values) >> \o Unique(Tail(values), seen \cup { Head(values) })

IsTruthy(s) == s # << >>

StyleFolder(style) == SplitSecond(style.path)

ScanFolders(colorStyles, scannedTexts) ==
  Unique(SelectSeq(MapSeq(colorStyles, StyleFolder), IsTruthy)
           \o SelectSeq(MapSeq(scannedTexts, StyleFolder), IsTruthy), {})

HasState(colorStyles, color, words) ==
  \E i \in 1..Len(colorStyles) :
    /\ IncludesSeq(ToLowerCase(colorStyles[i].name), ToLowerCase(color.name))
    /\ \E w \in words : Includes(ToLowerCase(colorStyles[i].name), w)

RECURSIVE BrandIssues(_, _)
BrandIssues(colorStyles, i) ==
  IF i > Len(colorStyles) THEN << >>
  ELSE LET color == colorStyles[i]
           hover == IF HasState(colorStyles, color, {"hover"}) THEN << >>
                    ELSE << Cat(<< "Missing hover state for " >>, color.name) >>
           pressed == IF HasState(colorStyles, color, {"pressed", "active"}) THEN << >>
                      ELSE << Cat(<< "Missing pressed state for " >>, color.name) >>
       IN (IF categorizeStyle(color.name, color.path) = << "Brand" >>
             THEN hover \o pressed ELSE << >>)
            \o BrandIssues(colorStyles, i + 1)

ScanIssues(colorStyles) ==
  BrandIssues(colorStyles, 1)
    \o (IF \A i \in 1..Len(colorStyles) :
             colorStyles[i].dark # << >> /\ colorStyles[i].dark # colorStyles[i].light
          THEN << >>
          ELSE << << "Some styles are missing dark mode variants" >> >>)

\* the value scanProject stores with setScanResult
ScanResultOf(colorStyles, scannedTexts) ==
  [present |-> TRUE, colorStyles |-> colorStyles, textStyles |-> scannedTexts,
   folders |-> ScanFolders(colorStyles, scannedTexts),
   issues |-> ScanIssues(colorStyles)]

\* one of the two reads of a scan resolves; the scan goes on when both have
ScanFulfil(c) ==
  /\ c \in pending /\ c.kind \in {"scan", "mock"}
  /\ pending' = pending \ {c}
  /\ IF c.id = scanCur /\ c.op \in scanWait
       THEN LET got == IF c.op = "getColorStyles"
                         THEN (IF c.kind = "scan" THEN hostStyles ELSE mockColorStyles)
                         ELSE scanGot
            IN IF scanWait \ {c.op} = {}
                 THEN /\ scanResult' = ScanResultOf(got, hostTextStyles)
                      /\ isScanning' = FALSE
                      /\ scanCur' = 0
                      /\ scanWait' = {}
                      /\ scanGot' = << >>
                 ELSE /\ scanWait' = scanWait \ {c.op}
                      /\ scanGot' = got
                      /\ UNCHANGED << scanResult, isScanning, scanCur >>
       ELSE UNCHANGED << scanResult, isScanning, scanCur, scanWait, scanGot >>
  /\ UNCHANGED << hostVars, importVars, textVars, generator, calc, mainVars, runs, selectedEnhancements, scanSeq, delayed,
                  handover, opsLeft >>

\* a scanProject without its finally block (sensitivity variant of ScanReject)
ScanRejectNoFinally(c) ==
  /\ c \in pending /\ c.kind = "scan"
  /\ pending' = pending \ {c}
  /\ IF c.id = scanCur /\ c.op \in scanWait
       THEN /\ scanCur' = 0
            /\ scanWait' = {}
            /\ scanGot' = << >>
            /\ UNCHANGED isScanning
       ELSE UNCHANGED << isScanning, scanCur, scanWait, scanGot >>
  /\ UNCHANGED << hostVars, importVars, textVars, generator, calc, mainVars, runs, scanResult, selectedEnhancements, scanSeq,
                  delayed, handover, opsLeft >>

\* one of the two host reads rejects: Promise.all rejects, catch and finally run
ScanReject(c) ==
  /\ c \in pending /\ c.kind = "scan"
  /\ pending' = pending \ {c}
  /\ IF c.id = scanCur /\ c.op \in scanWait
       THEN /\ isScanning' = FALSE
            /\ scanCur' = 0
            /\ scanWait' = {}
            /\ scanGot' = << >>
       ELSE UNCHANGED << isScanning, scanCur, scanWait, scanGot >>
  /\ UNCHANGED << hostVars, importVars, textVars, generator, calc, mainVars, runs, scanResult, selectedEnhancements, scanSeq,
                  delayed, handover, opsLeft >>

\* the scanner is inside a scan: it awaits host reads that are in flight
ScanInProgress ==
  /\ scanCur # 0
  /\ scanWait # {}
  /\ \A op \in scanWait : \E c \in pending : c.id = scanCur /\ c.op = op

\* C29: a host read that fails during a scan leaves the scan result and the
\* tokens of the main component as they are and ends the scan, and isScanning
\* is true exactly while a scan is in progress.
C29_FailedScanKeepsResult ==
  [][/\ (isScanning <=> ScanInProgress)'
     /\ \A c \in pending :
          ScanReject(c) /\ c.id = scanCur /\ c.op \in scanWait
            => /\ scanResult' = scanResult
               /\ tokens' = tokens /\ handover' = handover
               /\ ~isScanning']_vars

\* a rescan has failed on one of its reads, the other read is still in flight,
\* and the result of the scan before it is still shown
C29_Witness ==
  /\ ScannerMounted /\ scanResult.present
  /\ ~isScanning /\ scanCur = 0
  /\ \E c \in pending : c.kind = "scan" /\ c.id = scanSeq

\* the Scan Project and Rescan buttons
ScanClick ==
  /\ UiShown /\ ScannerMounted
  /\ ~isScanning
  /\ scanResult.present \/ isFramerReady
  /\ scanSeq < MaxScans
  /\ opsLeft > 0
  /\ opsLeft' = opsLeft - 1
  /\ isScanning' = TRUE
  /\ scanCur' = scanSeq + 1
  /\ scanSeq' = scanSeq + 1
  /\ scanWait' = {"getColorStyles", "getTextStyles"}
  /\ scanGot' = << >>
  /\ pending' = pending \cup ScanCalls(scanSeq + 1)
  /\ UNCHANGED << hostVars, importVars, textVars, generator, calc, mainVars, runs, scanResult, selectedEnhancements, delayed,
                  handover >>

Enhancements == {"accessibility", "darkMode", "states"}

handleEnhancementToggle(e) ==
  /\ UiShown /\ ScannerMounted /\ scanResult.present
  /\ e \in Enhancements
  /\ selectedEnhancements' =
       IF e \in selectedEnhancements THEN selectedEnhancements \ {e}
       ELSE selectedEnhancements \cup {e}
  /\ UNCHANGED << hostVars, importVars, textVars, generator, calc, pending, mainVars, runs, isScanning, scanResult, scanCur,
                  scanWait, scanGot, scanSeq, delayed, handover, opsLeft >>

ScannedToken(style) ==
  Token(style.name,
        OrElse(style.light, White),
        OrElse(style.dark, OrElse(style.light, White)),
        categorizeStyle(style.name, style.path))

AccessibleToken(token) ==
  [token EXCEPT !.light = IF token.category = << "Text" >> THEN Gray800 ELSE @,
                !.dark = IF token.category = << "Text" >> THEN Gray50 ELSE @]

DarkModeToken(token) ==
  [token EXCEPT !.dark =
     IF token.category = << "Background" >>
       THEN (IF Includes(ToLowerCase(token.name), "base") THEN Gray900 ELSE Gray800)
       ELSE @]

HoverToken(token) ==
  Token(Cat(token.name, << " ", "Hover" >>), adjustBrightness(token.light, 10),
        adjustBrightness(token.dark, 10), << "Brand" >>)

PressedToken(token) ==
  Token(Cat(token.name, << " ", "Pressed" >>), adjustBrightness(token.light, -10),
        adjustBrightness(token.dark, -10), << "Brand" >>)

IsBrand(token) == token.category = << "Brand" >>

RECURSIVE StatePairs(_)
\* a hover and a pressed token for each token of the list, in order
StatePairs(brandTokens) ==
  IF brandTokens = << >> THEN << >>
  ELSE << HoverToken(Head(brandTokens)), PressedToken(Head(brandTokens)) >>
         \o StatePairs(Tail(brandTokens))

\* the token list applyEnhancements hands to onStylesScanned
EnhancedTokens(colorStyles, selected) ==
  LET base == MapSeq(colorStyles, ScannedToken)
      acc == IF "accessibility" \in selected THEN MapSeq(base, AccessibleToken) ELSE base
      drk == IF "darkMode" \in selected THEN MapSeq(acc, DarkModeToken) ELSE acc
  IN IF "states" \in selected
       THEN drk \o StatePairs(SelectSeq(drk, IsBrand))
       ELSE drk

\* applyEnhancements, then handleStylesScanned of the main component
applyEnhancements ==
  /\ UiShown /\ ScannerMounted /\ scanResult.present
  /\ selectedEnhancements # {}
  /\ opsLeft > 0
  /\ opsLeft' = opsLeft - 1
  /\ LET enhancedTokens == EnhancedTokens(scanResult.colorStyles, selectedEnhancements)
     IN /\ tokens' = sortTokens(enhancedTokens)
        /\ handover' = [before |-> enhancedTokens, after |-> sortTokens(enhancedTokens)]
  /\ showInitialChoice' = FALSE
  /\ activeTab' = "edit"
  /\ Render(FALSE, "edit", isFramerReady, pending, delayed)
  /\ UNCHANGED << hostVars, importVars, textVars, generator, calc, mounted, isFramerReady, msgCount, runs >>

\* ---------------------------------------------------- design-system editor
EditorOps == {"fixAccessibility", "generateDarkMode", "generateStates"}

FixedToken(token) ==
  IF token.category = << "Text" >>
    THEN [token EXCEPT !.light = Gray800, !.dark = Gray50]
    ELSE token

EditorDarkToken(token) ==
  IF token.category = << "Background" >>
    THEN [token EXCEPT !.dark =
            IF Includes(ToLowerCase(token.name), "base") THEN Gray900 ELSE Gray800]
    ELSE IF token.category = << "Text" >> THEN [token EXCEPT !.dark = Gray50]
    ELSE token

NeedsStates(token) ==
  /\ token.category = << "Brand" >>
  /\ ~Includes(token.name, "Hover")
  /\ ~Includes(token.name, "Pressed")

\* the stateTokens array generateStates builds from the tokens it captured
stateTokens(toks) == StatePairs(SelectSeq(toks, NeedsStates))

\* the button of one of the three operations: the flag is set, the delay begins
\* and the handler keeps the tokens of the render it was created in
EditorStart(kind) ==
  /\ UiShown /\ EditorMounted
  /\ kind \in EditorOps
  /\ ~\E d \in delayed : d.kind = kind /\ d.live
  /\ opsLeft > 0
  /\ opsLeft' = opsLeft - 1
  /\ delayed' = delayed \cup { [kind |-> kind, toks |-> tokens, live |-> TRUE] }
  /\ UNCHANGED << hostVars, importVars, textVars, generator, calc, pending, mainVars, runs, scanVars, handover >>

\* the delay of an operation is over: it computes from the captured tokens and
\* calls onTokensUpdate, which is handleTokenUpdate of the main component
EditorFinish(d) ==
  /\ d \in delayed
  /\ delayed' = delayed \ {d}
  /\ LET updatedTokens ==
           IF d.kind = "fixAccessibility" THEN MapSeq(d.toks, FixedToken)
           ELSE IF d.kind = "generateDarkMode" THEN MapSeq(d.toks, EditorDarkToken)
           ELSE d.toks \o stateTokens(d.toks)
     IN IF d.kind = "generateStates" /\ Len(stateTokens(d.toks)) = 0
          THEN UNCHANGED << tokens, handover >>
          ELSE HandleTokenUpdate(updatedTokens)
  /\ UNCHANGED << hostVars, importVars, textVars, generator, calc, pending, mounted, isFramerReady, activeTab,
                  showInitialChoice, msgCount, runs, scanVars, opsLeft >>

\* what an operation of the editor does to a token array
EditorEffect(kind, toks) ==
  IF kind = "fixAccessibility" THEN MapSeq(toks, FixedToken)
  ELSE IF kind = "generateDarkMode" THEN MapSeq(toks, EditorDarkToken)
  ELSE toks \o stateTokens(toks)

\* the token array after an operation of the editor has acted on the array
\* that is current when its delay ends
EditorOutcome(kind, toks) ==
  IF kind = "generateStates" /\ Len(stateTokens(toks)) = 0
    THEN toks
    ELSE sortTokens(EditorEffect(kind, toks))

\* another operation of the editor has completed on the array that operation d
\* captured, and the token array is what that operation made of it
OvertakenBy(d, kind) ==
  /\ kind \in EditorOps \ {d.kind}
  /\ tokens = EditorOutcome(kind, d.toks)
  /\ tokens # d.toks

EditColours == { Gray800, NotHex }

ReplaceByName(toks, updatedToken) ==
  [ k \in 1..Len(toks) |->
      IF toks[k].name = updatedToken.name THEN updatedToken ELSE toks[k] ]

\* handleSave of a card, handleTokenUpdate of the grid, then of the main component
handleSave(i, light, dark) ==
  /\ UiShown /\ EditorMounted
  /\ i \in 1..Len(tokens)
  /\ light \in EditColours /\ dark \in EditColours
  /\ opsLeft > 0
  /\ opsLeft' = opsLeft - 1
  /\ HandleTokenUpdate(ReplaceByName(tokens,
                                     [tokens[i] EXCEPT !.light = light, !.dark = dark]))
  /\ UNCHANGED << hostVars, importVars, textVars, generator, calc, pending, mounted, isFramerReady, activeTab,
                  showInitialChoice, msgCount, runs, scanVars, delayed >>

\* ----------------------------------------------------------- token importer
\* JSON null, as against a missing or empty value (<< >>)
JsNull == << "null" >>

Truthy(v) == v # << >> /\ v # JsNull

ColorEntry(n, l, d, p) == [name |-> n, light |-> l, dark |-> d, path |-> p]

\* A file: whether its text is JSON, the entries of its "colors" array and
\* its other top-level keys (the legacy format).
FileBadJson == [json |-> FALSE, colors |-> << >>, entries |-> << >>]
FileNoTokens == [json |-> TRUE, colors |-> << >>, entries |-> << >>]
FileTwo ==
  [json |-> TRUE,
   colors |-> << ColorEntry(<< "Primary" >>, Indigo, IndigoLt,
                            << "/", "Brand", "/", "Primary" >>),
                 ColorEntry(<< "Body" >>, Gray800, Empty,
                            << "/", "Text", "/", "Body" >>) >>,
   entries |-> << >>]
FilePartial ==
  [json |-> TRUE,
   colors |-> << ColorEntry(<< "Primary" >>, Indigo, IndigoLt,
                            << "/", "Brand", "/", "Primary" >>),
                 ColorEntry(<< "Body" >>, Gray800, JsNull,
                            << "/", "Text", "/", "Body" >>) >>,
   entries |-> << >>]
FileDuplicate ==
  [json |-> TRUE,
   colors |-> << ColorEntry(<< "Primary" >>, Indigo, IndigoLt,
                            << "/", "Brand", "/", "Primary" >>),
                 ColorEntry(<< "Primary" >>, Violet, VioletLt,
                            << "/", "Brand", "/", "Primary" >>) >>,
   entries |-> << >>]
FileNotHex ==
  [json |-> TRUE,
   colors |-> << ColorEntry(<< "Surface" >>, NotHex, ShortHex, << "surface" >>) >>,
   entries |-> << >>]
FileLegacy ==
  [json |-> TRUE, colors |-> << >>,
   entries |-> << ColorEntry(<< "primary" >>, Indigo, IndigoLt, << >>),
                  ColorEntry(<< "text" >>, Gray800, Gray50, << >>),
                  ColorEntry(<< "background" >>, White, JsNull, << >>) >>]

Files ==
  { FileBadJson, FileNoTokens, FileTwo, FilePartial, FileDuplicate, FileNotHex,
    FileLegacy }

\* the number of colour entries a file holds
EntryCount(file) == Len(file.colors) + Len(file.entries)

PathCategory(path) ==
  IF Includes(path, "text") \/ Includes(path, "icon") THEN << "Text" >>
  ELSE IF Includes(path, "bg") \/ Includes(path, "background")
            \/ Includes(path, "surface") THEN << "Backgrounds" >>
  ELSE IF Includes(path, "border") \/ Includes(path, "divider") THEN << "Borders" >>
  ELSE IF Includes(path, "brand") \/ Includes(path, "primary")
            \/ Includes(path, "secondary") \/ Includes(path, "accent")
         THEN << "Brand" >>
  ELSE IF Includes(path, "semantic") \/ Includes(path, "success")
            \/ Includes(path, "error") \/ Includes(path, "warning")
            \/ Includes(path, "info") THEN << "Semantic" >>
  ELSE IF Includes(path, "neutral") THEN << "Neutral" >>
  ELSE << "Other" >>

LegacyCategory(name) ==
  IF Includes(name, "text") \/ Includes(name, "foreground") THEN << "Text" >>
  ELSE IF Includes(name, "bg") \/ Includes(name, "background")
            \/ Includes(name, "surface") THEN << "Backgrounds" >>
  ELSE IF Includes(name, "border") \/ Includes(name, "divider") THEN << "Borders" >>
  ELSE IF Includes(name, "primary") \/ Includes(name, "accent") THEN << "Brand" >>
  ELSE << "Other" >>

KeptColor(colorToken) == Truthy(colorToken.light) /\ colorToken.dark # JsNull

ImportedColor(colorToken) ==
  Token(colorToken.name, colorToken.light,
        IF Truthy(colorToken.dark) THEN colorToken.dark ELSE colorToken.light,
        PathCategory(ToLowerCase(colorToken.path)))

KeptLegacy(entry) ==
  /\ Truthy(entry.light) /\ Truthy(entry.dark)
  /\ entry.name # << "colors" >> /\ entry.name # << "text" >>

ImportedLegacy(entry) ==
  Token(entry.name, entry.light, entry.dark, LegacyCategory(entry.name))

parseTokenData(data) ==
  MapSeq(SelectSeq(data.colors, KeptColor), ImportedColor)
    \o MapSeq(SelectSeq(data.entries, KeptLegacy), ImportedLegacy)

\* handleFile up to its await of file.text()
ImportStart(file) ==
  /\ mounted
  /\ file \in Files
  /\ ~isProcessing
  /\ opsLeft > 0
  /\ opsLeft' = opsLeft - 1
  /\ isProcessing' = TRUE
  /\ importError' = << >>
  /\ importFile' = file
  /\ lastImport' = NoImport
  /\ UNCHANGED << hostVars, textVars, generator, calc, pending, mainVars, runs, scanVars, delayed,
                  handover >>

\* handleFile after the text has arrived: parse, then either the catch block
\* or onTokensImported, which is handleTokensImported of the main component
ImportFinish ==
  /\ isProcessing
  /\ isProcessing' = FALSE
  /\ importFile' = NoFile
  /\ LET parsed == IF importFile.json THEN parseTokenData(importFile) ELSE << >>
         thrown == ~importFile.json \/ Len(parsed) = 0
     IN IF thrown
          THEN /\ importError' =
                    IF importFile.json THEN << "No valid color tokens found" >>
                    ELSE << "SyntaxError" >>
               /\ lastImport' = [done |-> TRUE, file |-> importFile, errors |-> 1,
                                 calls |-> 0, delivered |-> << >>,
                                 before |-> tokens, after |-> tokens]
               /\ UNCHANGED << pending, tokens, activeTab, scanVars, delayed >>
          ELSE /\ importError' = importError
               /\ lastImport' = [done |-> TRUE, file |-> importFile, errors |-> 0,
                                 calls |-> 1, delivered |-> parsed,
                                 before |-> tokens, after |-> parsed]
               /\ tokens' = parsed
               /\ activeTab' = "edit"
               /\ Render(showInitialChoice, "edit", isFramerReady, pending, delayed)
  /\ UNCHANGED << hostVars, textVars, generator, calc, mounted, isFramerReady, showInitialChoice,
                  msgCount, runs, handover, opsLeft >>

\* ---------------------------------------------------------- contrast engine
\* 1000 * (c <= 0.03928 ? c / 12.92 : ((c + 0.055) / 1.055) ^ 2.4) for
\* c = channel / 255, rounded, by channel value 0..255
LinearChannel ==
  <<
     0, 0, 1, 1, 1, 2, 2, 2, 2, 3, 3, 3, 4, 4, 4, 5,
     5, 6, 6, 7, 7, 7, 8, 9, 9, 10, 10, 11, 12, 12, 13, 14,
     14, 15, 16, 17, 18, 19, 19, 20, 21, 22, 23, 24, 25, 26, 27, 28,
     30, 31, 32, 33, 34, 36, 37, 38, 40, 41, 42, 44, 45, 47, 48, 50,
     51, 53, 54, 56, 58, 60, 61, 63, 65, 67, 68, 70, 72, 74, 76, 78,
     80, 82, 84, 87, 89, 91, 93, 95, 98, 100, 102, 105, 107, 109, 112, 114,
     117, 120, 122, 125, 127, 130, 133, 136, 138, 141, 144, 147, 150, 153, 156, 159,
     162, 165, 168, 171, 175, 178, 181, 184, 188, 191, 195, 198, 202, 205, 209, 212,
     216, 220, 223, 227, 231, 235, 238, 242, 246, 250, 254, 258, 262, 266, 270, 275,
     279, 283, 287, 292, 296, 301, 305, 309, 314, 319, 323, 328, 332, 337, 342, 347,
     352, 356, 361, 366, 371, 376, 381, 386, 392, 397, 402, 407, 413, 418, 423, 429,
     434, 440, 445, 451, 456, 462, 468, 474, 479, 485, 491, 497, 503, 509, 515, 521,
     527, 533, 539, 546, 552, 558, 565, 571, 578, 584, 591, 597, 604, 610, 617, 624,
     631, 638, 644, 651, 658, 665, 672, 680, 687, 694, 701, 708, 716, 723, 730, 738,
     745, 753, 761, 768, 776, 784, 791, 799, 807, 815, 823, 831, 839, 847, 855, 863,
     871, 880, 888, 896, 905, 913, 922, 930, 939, 947, 956, 965, 973, 982, 991, 1000 >>

\* getLuminance, in units of 1e-7
getLuminance(r, g, b) ==
  2126 * LinearChannel[r + 1] + 7152 * LinearChannel[g + 1] + 722 * LinearChannel[b + 1]

\* 0.05 in the units of getLuminance
LuminanceOffset == 500000

NoRgb == [found |-> FALSE, r |-> 0, g |-> 0, b |-> 0]

\* hexToRgb of the accessibility checker: null when the pattern does not match
hexToRgb(hex) ==
  IF MatchesRgbPattern(hex)
    THEN [found |-> TRUE, r |-> Channel(hex, 1), g |-> Channel(hex, 2),
          b |-> Channel(hex, 3)]
    ELSE NoRgb

\* hexToRgb of the design-system editor: black when the pattern does not match
hexToRgbOrBlack(hex) ==
  IF MatchesRgbPattern(hex)
    THEN [found |-> TRUE, r |-> Channel(hex, 1), g |-> Channel(hex, 2),
          b |-> Channel(hex, 3)]
    ELSE [found |-> TRUE, r |-> 0, g |-> 0, b |-> 0]

Max(a, b) == IF a >= b THEN a ELSE b
Min(a, b) == IF a <= b THEN a ELSE b

\* (max(lum1, lum2) + 0.05) / (min(lum1, lum2) + 0.05) >= tenths / 10
RatioAtLeast(lum1, lum2, tenths) ==
  (Max(lum1, lum2) + LuminanceOffset) * 10 >= tenths * (Min(lum1, lum2) + LuminanceOffset)

\* a ratio that divides the first luminance by the second as they come
RatioPartsInOrder(lum1, lum2) ==
  << lum1 + LuminanceOffset, lum2 + LuminanceOffset >>

\* (brightest + 0.05) / (darkest + 0.05), as dividend and divisor
RatioParts(lum1, lum2) ==
  << Max(lum1, lum2) + LuminanceOffset, Min(lum1, lum2) + LuminanceOffset >>

\* the number the design-system editor's getContrastRatio returns
getContrastRatioEditor(color1, color2) ==
  LET rgb1 == hexToRgbOrBlack(color1)
      rgb2 == hexToRgbOrBlack(color2)
  IN RatioParts(getLuminance(rgb1.r, rgb1.g, rgb1.b),
                getLuminance(rgb2.r, rgb2.g, rgb2.b))

\* the grades of a pair of luminances
GradeOf(lum1, lum2) ==
  IF RatioAtLeast(lum1, lum2, 70) THEN "excellent"
  ELSE IF RatioAtLeast(lum1, lum2, 45) THEN "good"
  ELSE IF RatioAtLeast(lum1, lum2, 30) THEN "poor"
  ELSE "fail"

\* getContrastRatio of the integrated token preview: ratio 1 when a colour
\* does not match the pattern
getContrastRatioPreview(color1, color2) ==
  LET rgb1 == hexToRgb(color1)
      rgb2 == hexToRgb(color2)
      lum1 == getLuminance(rgb1.r, rgb1.g, rgb1.b)
      lum2 == getLuminance(rgb2.r, rgb2.g, rgb2.b)
  IN IF ~rgb1.found \/ ~rgb2.found
       THEN [zero |-> FALSE, ratio |-> << 1, 1 >>, wcagAA |-> FALSE,
             wcagAAA |-> FALSE, grade |-> "fail"]
       ELSE [zero |-> FALSE, ratio |-> RatioParts(lum1, lum2),
             wcagAA |-> RatioAtLeast(lum1, lum2, 45),
             wcagAAA |-> RatioAtLeast(lum1, lum2, 70),
             grade |-> GradeOf(lum1, lum2)]

\* a checker that takes the large-text threshold for AA
getContrastRatioLargeText(color1, color2) ==
  LET rgb1 == hexToRgb(color1)
      rgb2 == hexToRgb(color2)
      lum1 == getLuminance(rgb1.r, rgb1.g, rgb1.b)
      lum2 == getLuminance(rgb2.r, rgb2.g, rgb2.b)
  IN IF ~rgb1.found \/ ~rgb2.found
       THEN [zero |-> TRUE, ratio |-> << 0, 1 >>, wcagAA |-> FALSE,
             wcagAAA |-> FALSE, grade |-> "fail"]
       ELSE [zero |-> FALSE, ratio |-> RatioParts(lum1, lum2),
             wcagAA |-> RatioAtLeast(lum1, lum2, 30),
             wcagAAA |-> RatioAtLeast(lum1, lum2, 70),
             grade |-> GradeOf(lum1, lum2)]

\* getContrastRatio of the accessibility checker
getContrastRatio(color1, color2) ==
  LET rgb1 == hexToRgb(color1)
      rgb2 == hexToRgb(color2)
      lum1 == getLuminance(rgb1.r, rgb1.g, rgb1.b)
      lum2 == getLuminance(rgb2.r, rgb2.g, rgb2.b)
  IN IF ~rgb1.found \/ ~rgb2.found
       THEN [zero |-> TRUE, ratio |-> << 0, 1 >>, wcagAA |-> FALSE,
             wcagAAA |-> FALSE, grade |-> "fail"]
       ELSE [zero |-> FALSE, ratio |-> RatioParts(lum1, lum2),
             wcagAA |-> RatioAtLeast(lum1, lum2, 45),
             wcagAAA |-> RatioAtLeast(lum1, lum2, 70),
             grade |-> IF RatioAtLeast(lum1, lum2, 70) THEN "excellent"
                       ELSE IF RatioAtLeast(lum1, lum2, 45) THEN "good"
                       ELSE IF RatioAtLeast(lum1, lum2, 30) THEN "poor"
                       ELSE "fail"]

\* getContrastRatio(bgColor, textColor) >= 4.5 in the design-system editor
EditorPasses(color1, color2) ==
  LET rgb1 == hexToRgbOrBlack(color1)
      rgb2 == hexToRgbOrBlack(color2)
  IN RatioAtLeast(getLuminance(rgb1.r, rgb1.g, rgb1.b),
                  getLuminance(rgb2.r, rgb2.g, rgb2.b), 45)

ModeColour(token, isDarkMode) == IF isDarkMode THEN token.dark ELSE token.light

\* the pairs (background, text) accessibilityStats of the editor counts as passed
PassedPairs(toks, isDarkMode) ==
  { pair \in (1..Len(toks)) \X (1..Len(toks)) :
      EditorPasses(ModeColour(toks[pair[1]], isDarkMode),
                   ModeColour(toks[pair[2]], isDarkMode)) }

accessibilityStats(toks, isDarkMode) ==
  [total |-> Len(toks) * Len(toks),
   passed |-> Cardinality(PassedPairs(toks, isDarkMode)),
   failed |-> Len(toks) * Len(toks) - Cardinality(PassedPairs(toks, isDarkMode))]

\* Math.round(passed / total * 100), or 0 for no combination: the quotient
\* rounded half up
StatsPercentage(stats) ==
  IF stats.total > 0
    THEN (200 * stats.passed + stats.total) \div (2 * stats.total)
    ELSE 0

\* accessibilityStats.percentage === 100 && tokens.length > 0
allAccessibilityPassed(toks, isDarkMode) ==
  /\ StatsPercentage(accessibilityStats(toks, isDarkMode)) = 100
  /\ Len(toks) > 0

\* every two different tokens of the array pass against each other, each as
\* background of the other
DifferentPairsPass(toks, isDarkMode) ==
  \A i, j \in 1..Len(toks) :
    i # j => << i, j >> \in PassedPairs(toks, isDarkMode)

\* C30: in either mode, a token set that is not empty and whose different
\* tokens all pass against each other counts as all passed, and passed and
\* failed add up to total.
C30_AllPassedWhenPairsPass ==
  \A isDarkMode \in BOOLEAN :
    /\ Len(tokens) > 0 /\ DifferentPairsPass(tokens, isDarkMode)
         => allAccessibilityPassed(tokens, isDarkMode)
    /\ accessibilityStats(tokens, isDarkMode).passed
         + accessibilityStats(tokens, isDarkMode).failed
         = accessibilityStats(tokens, isDarkMode).total

\* ------------------------------------------------------------------- system
Next ==
  \/ Mount
  \/ PluginReady
  \/ \E c \in pending : LoadFulfil(c)
  \/ \E c \in pending : LoadReject(c)
  \/ \E tab \in {"scanner", "generator"} : ChooseCard(tab)
  \/ \E tab \in {"scanner", "generator", "edit"} : SetActiveTab(tab)
  \/ \E c \in pending : FontsSettle(c)
  \/ ApplyStart
  \/ \E c \in pending : RunFulfil(c)
  \/ \E c \in pending : RunReject(c)
  \/ \E c \in pending : ScanFulfil(c)
  \/ \E c \in pending : ScanReject(c)
  \/ ScanClick
  \/ \E e \in Enhancements : handleEnhancementToggle(e)
  \/ applyEnhancements
  \/ \E kind \in EditorOps : EditorStart(kind)
  \/ \E d \in delayed : EditorFinish(d)
  \/ \E i \in 1..Len(tokens), light \in EditColours, dark \in EditColours :
       handleSave(i, light, dark)
  \/ \E file \in Files : ImportStart(file)
  \/ ImportFinish

Spec == Init /\ [][Next]_vars

TypeOK ==
  /\ apiWhere \in {"none", "window", "parent"}
  /\ opsLeft \in 0..MaxOps
  /\ Len(runs) <= MaxRuns
  /\ scanSeq <= MaxScans

\* ================================================================ properties
WriteOps == {"createColorStyle", "setAttributes"}

RunIds == 1..Len(runs)

\* the write calls a run has issued
Writes(run) == SelectSeq(run.calls, LAMBDA call : call.op \in WriteOps)

\* the calls of run r that have not settled
PendingOf(r) == { c \in pending : c.kind = "run" /\ c.id = r }

\* C1: when a create or update call of an apply run fails, what the run has
\* written stays in the host document and every remaining token of the run
\* is still attempted: a finished run that got its list of existing styles
\* has issued one write per token, and the styles it created are still there.
C1_LoopContinuesPastFailure ==
  \A r \in RunIds :
    runs[r].pc = "done" /\ runs[r].listed =>
      /\ Len(Writes(runs[r])) = Len(runs[r].toks)
      /\ \A k \in 1..Len(Writes(runs[r])) :
           (k <= runs[r].createdCount + runs[r].updatedCount) =>
             Writes(runs[r])[k].name \in StyleNames(hostStyles)

\* C2: in a finished apply run every token causes exactly one write: a create
\* when its composed name is not among the names getColorStyles returned at
\* the start of the run, an update of the style of that name otherwise.
C2_CreateOrUpdateOncePerToken ==
  \A r \in RunIds :
    runs[r].pc = "done" /\ runs[r].listed =>
      \A k \in 1..Len(runs[r].toks) :
        LET mine == SelectSeq(runs[r].calls, LAMBDA call : call.token = k)
        IN /\ Len(mine) = 1
           /\ mine[1].name = StyleName(runs[r].toks[k])
           /\ mine[1].op = IF StyleName(runs[r].toks[k]) \in StyleNames(runs[r].existing)
                             THEN "setAttributes" ELSE "createColorStyle"

\* C3: an apply run that passed its guards has notified nobody while a host
\* call of it is pending, and once its calls have settled it has notified
\* exactly once: success if no call failed, error if one did.
C3_OneAggregateNotification ==
  \A r \in RunIds :
    runs[r].pc \notin {"skipped", "noapi"} =>
      IF PendingOf(r) # {}
        THEN runs[r].pc = "await" /\ runs[r].notes = << >>
        ELSE /\ runs[r].pc = "done"
             /\ runs[r].notes = IF runs[r].failed THEN << "error" >> ELSE << "success" >>

C3_Witness ==
  \E r \in RunIds :
    /\ runs[r].pc = "done" /\ runs[r].failed
    /\ runs[r].createdCount >= 1
    /\ runs[r].notes = << "error" >>

\* C4 as stated: at most one host-bridge call is pending in any state
C4_AtMostOnePending ==
  Cardinality({ c \in pending : c.kind # "mock" }) <= 1

\* C4: within one apply run the host calls are issued one after another (at
\* most one call of the run is pending); the two reads of a scan are issued
\* together, and calls of different operations may be pending together.
C4_SequentialWithinRun ==
  /\ \A r \in RunIds : Cardinality(PendingOf(r)) <= 1
  /\ \A id \in 1..MaxScans :
       Cardinality({ c \in pending : c.kind = "scan" /\ c.id = id }) <= 2

C4_Witness ==
  \E r \in RunIds :
    /\ runs[r].createdCount >= 1
    /\ \E c \in PendingOf(r) : c.op \in WriteOps
    /\ \E c \in pending : c.kind = "scan"

\* C5: the names of the tokens of the working set are pairwise distinct
C5_NamesDistinct ==
  \A i, j \in 1..Len(tokens) : i # j => tokens[i].name # tokens[j].name

\* C6: an array handed to the main component is left as it was handed over
C6_HandedArrayUntouched == handover.after = handover.before

\* the file could not be imported: no JSON, or no token passed validation
Malformed(file) == ~file.json \/ Len(parseTokenData(file)) = 0

\* C7: a malformed import shows one error message, calls onTokensImported
\* never and leaves the tokens as they were; an import that delivers tokens
\* delivers one token for every entry of the file.
C7_ImportAllOrNothing ==
  lastImport.done =>
    /\ Malformed(lastImport.file) =>
         /\ lastImport.errors = 1
         /\ lastImport.calls = 0
         /\ lastImport.after = lastImport.before
    /\ lastImport.calls > 0 =>
         Len(lastImport.delivered) = EntryCount(lastImport.file)

\* C8: a colour that is not six hex digits makes every pair that contains it
\* fail: the accessibility checker grades the pair "fail" and not AA, and the
\* statistics of the design-system editor do not count it as passed.
C8_MalformedPairsFail ==
  \A isDarkMode \in BOOLEAN :
    \A i, j \in 1..Len(tokens) :
      LET c1 == ModeColour(tokens[i], isDarkMode)
          c2 == ModeColour(tokens[j], isDarkMode)
      IN ~MatchesRgbPattern(c1) \/ ~MatchesRgbPattern(c2) =>
           /\ ~getContrastRatio(c1, c2).wcagAA
           /\ getContrastRatio(c1, c2).grade = "fail"
           /\ << i, j >> \notin PassedPairs(tokens, isDarkMode)

\* C9: light and dark of every token of the working set are six hex digits
C9_ColoursAreHex ==
  \A i \in 1..Len(tokens) :
    MatchesRgbPattern(tokens[i].light) /\ MatchesRgbPattern(tokens[i].dark)

\* C10: the host document changes only when a write call of an apply run
\* resolves, write calls are issued by apply runs only, and an apply started
\* with the host not ready or without tokens issues no host call.
C10_WritesOnlyInApplyRuns ==
  [][ /\ hostStyles' # hostStyles =>
           \E c \in pending \ pending' :
             c.kind = "run" /\ c.op \in WriteOps /\ runs[c.id].pc = "await"
      /\ \A c \in pending' :
           c.op \in WriteOps => c.kind = "run" /\ c.id \in 1..Len(runs')
      /\ \A r \in 1..Len(runs') :
           (~runs'[r].ready \/ Len(runs'[r].toks) = 0) =>
             /\ runs'[r].calls = << >>
             /\ ~\E c \in pending' : c.kind = "run" /\ c.id = r ]_vars

C10_Witness ==
  \E r \in RunIds :
    /\ runs[r].pc = "skipped" /\ runs[r].ready /\ Len(runs[r].toks) = 0
    /\ PendingOf(r) = {}

\* the calls that go to the host API (the scanner's stand-in is not the host)
HostBridgeCalls == { c \in pending : c.kind # "mock" }

\* C11: when the mount effect found no host API object, the blocking screen
\* is shown from then on and no host call is made, whatever arrives later.
C11_BlockedForTheSession ==
  mounted /\ apiWhere = "none" => ~UiShown /\ HostBridgeCalls = {}

\* -------------------------------------------------------------- text styles
\* fontSize is the number with its unit, as in '16px'
TextStyle(id, name, size, weight, lineHeight, category) ==
  [id |-> id, name |-> name, fontSize |-> << size, "px" >>,
   fontWeight |-> weight, lineHeight |-> lineHeight, category |-> category]

StandardNames ==
  { "H1", "H2", "H3", "H4", "H5", "H6", "Body L", "Body M", "Sub-title", "Caption" }

\* `${style.fontSize}-${style.category}`
StyleKey(style) == << style.fontSize, style.category >>

\* seen.set(key, style): a key already present keeps its place
SeenSet(seen, style) ==
  IF \E i \in 1..Len(seen) : StyleKey(seen[i]) = StyleKey(style)
    THEN [i \in 1..Len(seen) |->
            IF StyleKey(seen[i]) = StyleKey(style) THEN style ELSE seen[i]]
    ELSE Append(seen, style)

SeenGet(seen, style) ==
  CHOOSE i \in 1..Len(seen) : StyleKey(seen[i]) = StyleKey(style)

RECURSIVE CleanupFrom(_, _)
CleanupFrom(styles, seen) ==
  IF styles = << >> THEN seen
  ELSE LET style == Head(styles)
           fresh == \A i \in 1..Len(seen) : StyleKey(seen[i]) # StyleKey(style)
       IN IF fresh \/ (style.name \in StandardNames
                        /\ seen[SeenGet(seen, style)].name \notin StandardNames)
            THEN CleanupFrom(Tail(styles), SeenSet(seen, style))
            ELSE CleanupFrom(Tail(styles), seen)

RECURSIVE KeepFirstFrom(_, _)
KeepFirstFrom(styles, seen) ==
  IF styles = << >> THEN seen
  ELSE IF \A i \in 1..Len(seen) : StyleKey(seen[i]) # StyleKey(Head(styles))
         THEN KeepFirstFrom(Tail(styles), Append(seen, Head(styles)))
         ELSE KeepFirstFrom(Tail(styles), seen)

\* a clean-up that always keeps the first style of a key
cleanupDuplicatesKeepFirst(styles) == KeepFirstFrom(styles, << >>)

cleanupDuplicates(styles) == CleanupFrom(styles, << >>)

\* Math.round(baseFontSize * Math.pow(typeScaleRatio, step)) for the steps
\* 5, 4, 3, 2, 1, 0.5, 0.25, 0, -0.5, -1, by ratio (in thousandths) and base
ScaleSizes ==
  1067 :> (8 :> << 11, 10, 10, 9, 9, 8, 8, 8, 8, 7 >>
           @@ 16 :> << 22, 21, 19, 18, 17, 17, 16, 16, 15, 15 >>
           @@ 24 :> << 33, 31, 29, 27, 26, 25, 24, 24, 23, 22 >>
           @@ 32 :> << 44, 41, 39, 36, 34, 33, 33, 32, 31, 30 >>)
  @@  1125 :> (8 :> << 14, 13, 11, 10, 9, 8, 8, 8, 8, 7 >>
           @@ 16 :> << 29, 26, 23, 20, 18, 17, 16, 16, 15, 14 >>
           @@ 24 :> << 43, 38, 34, 30, 27, 25, 25, 24, 23, 21 >>
           @@ 32 :> << 58, 51, 46, 41, 36, 34, 33, 32, 30, 28 >>)
  @@  1200 :> (8 :> << 20, 17, 14, 12, 10, 9, 8, 8, 7, 7 >>
           @@ 16 :> << 40, 33, 28, 23, 19, 18, 17, 16, 15, 13 >>
           @@ 24 :> << 60, 50, 41, 35, 29, 26, 25, 24, 22, 20 >>
           @@ 32 :> << 80, 66, 55, 46, 38, 35, 33, 32, 29, 27 >>)
  @@  1250 :> (8 :> << 24, 20, 16, 13, 10, 9, 8, 8, 7, 6 >>
           @@ 16 :> << 49, 39, 31, 25, 20, 18, 17, 16, 14, 13 >>
           @@ 24 :> << 73, 59, 47, 38, 30, 27, 25, 24, 21, 19 >>
           @@ 32 :> << 98, 78, 63, 50, 40, 36, 34, 32, 29, 26 >>)
  @@  1333 :> (8 :> << 34, 25, 19, 14, 11, 9, 9, 8, 7, 6 >>
           @@ 16 :> << 67, 51, 38, 28, 21, 18, 17, 16, 14, 12 >>
           @@ 24 :> << 101, 76, 57, 43, 32, 28, 26, 24, 21, 18 >>
           @@ 32 :> << 135, 101, 76, 57, 43, 37, 34, 32, 28, 24 >>)
  @@  1414 :> (8 :> << 45, 32, 23, 16, 11, 10, 9, 8, 7, 6 >>
           @@ 16 :> << 90, 64, 45, 32, 23, 19, 17, 16, 13, 11 >>
           @@ 24 :> << 136, 96, 68, 48, 34, 29, 26, 24, 20, 17 >>
           @@ 32 :> << 181, 128, 90, 64, 45, 38, 35, 32, 27, 23 >>)
  @@  1500 :> (8 :> << 61, 41, 27, 18, 12, 10, 9, 8, 7, 5 >>
           @@ 16 :> << 122, 81, 54, 36, 24, 20, 18, 16, 13, 11 >>
           @@ 24 :> << 182, 122, 81, 54, 36, 29, 27, 24, 20, 16 >>
           @@ 32 :> << 243, 162, 108, 72, 48, 39, 35, 32, 26, 21 >>)
  @@  1618 :> (8 :> << 89, 55, 34, 21, 13, 10, 9, 8, 6, 5 >>
           @@ 16 :> << 177, 110, 68, 42, 26, 20, 18, 16, 13, 10 >>
           @@ 24 :> << 266, 164, 102, 63, 39, 31, 27, 24, 19, 15 >>
           @@ 32 :> << 355, 219, 136, 84, 52, 41, 36, 32, 25, 20 >>)

\* textStyleDefinitions: name, weight, line height and category of the steps
ScaleNames ==
  << "H1", "H2", "H3", "H4", "H5", "H6", "Body L", "Body M", "Sub-title", "Caption" >>
ScaleWeights == << 700, 600, 600, 500, 500, 500, 400, 400, 500, 400 >>
ScaleLineHeights ==
  << "1.1", "1.15", "1.2", "1.2", "1.2", "1.2", "1.6", "1.5", "1.4", "1.3" >>
ScaleCategories ==
  << "heading", "heading", "heading", "heading", "heading", "heading",
     "body", "body", "caption", "caption" >>

TypeScaleRatios == DOMAIN ScaleSizes
BaseFontSizes == DOMAIN ScaleSizes[1250]

\* the style of definition def, made at clock value now as number index
ScaleStyle(ratio, base, now, def, index) ==
  TextStyle(<< "text", now, index >>, ScaleNames[def], ScaleSizes[ratio][base][def],
            ScaleWeights[def], ScaleLineHeights[def], ScaleCategories[def])

\* newStyles of generateTypeScale
TypeScaleStyles(ratio, base, now) ==
  [def \in 1..10 |-> ScaleStyle(ratio, base, now, def, def - 1)]

\* ts.name === 'New Text Style' || ts.name.includes('Text Style')
IsGenericName(name) == name = "New Text Style"

\* generateTextSystem: the definitions no kept style is named after, at
\* base 16 and ratio 1.25, numbered as they come
generateTextSystem(existing, now) ==
  LET Kept(ts) == ~IsGenericName(ts.name)
      cleanedTextStyles == SelectSeq(existing, Kept)
      Missing(def) ==
        \A i \in 1..Len(cleanedTextStyles) : cleanedTextStyles[i].name # ScaleNames[def]
      defs == SelectSeq([def \in 1..10 |-> def], Missing)
  IN [index \in 1..Len(defs) |-> ScaleStyle(1250, 16, now, defs[index], index - 1)]

\* the clock moves on
Tick ==
  /\ clock < MaxClock
  /\ clock' = clock + 1
  /\ UNCHANGED << textStyles, typeScaleRatio, baseFontSize, textOps, smart,
                  generator, calc, appStill >>

setTypeScaleRatio(value) ==
  /\ textOps > 0 /\ value # typeScaleRatio
  /\ typeScaleRatio' = value
  /\ textOps' = textOps - 1
  /\ UNCHANGED << textStyles, baseFontSize, clock, smart, generator, calc, appStill >>

setBaseFontSize(value) ==
  /\ textOps > 0 /\ value # baseFontSize
  /\ baseFontSize' = value
  /\ textOps' = textOps - 1
  /\ UNCHANGED << textStyles, typeScaleRatio, clock, smart, generator, calc, appStill >>

addNewTextStyle ==
  /\ textOps > 0
  /\ textStyles' = Append(textStyles,
       TextStyle(<< "text", clock >>, "New Text Style", 16, 400, "1.5", "body"))
  /\ textOps' = textOps - 1
  /\ UNCHANGED << typeScaleRatio, baseFontSize, clock, smart, generator, calc, appStill >>

\* the card of the style at position i is the one clicked
deleteTextStyle(i) ==
  /\ textOps > 0
  /\ LET Other(style) == style.id # textStyles[i].id
     IN textStyles' = SelectSeq(textStyles, Other)
  /\ textOps' = textOps - 1
  /\ UNCHANGED << typeScaleRatio, baseFontSize, clock, smart, generator, calc, appStill >>

\* an edit of the name
updateTextStyle(i, name) ==
  /\ textOps > 0
  /\ textStyles' = [k \in 1..Len(textStyles) |->
                      IF textStyles[k].id = textStyles[i].id
                        THEN [textStyles[k] EXCEPT !.name = name]
                        ELSE textStyles[k]]
  /\ textOps' = textOps - 1
  /\ UNCHANGED << typeScaleRatio, baseFontSize, clock, smart, generator, calc, appStill >>

generateTypeScale ==
  /\ textOps > 0
  /\ textStyles' = cleanupDuplicates(
       textStyles \o TypeScaleStyles(typeScaleRatio, baseFontSize, clock))
  /\ textOps' = textOps - 1
  /\ UNCHANGED << typeScaleRatio, baseFontSize, clock, smart, generator, calc, appStill >>

\* handleGenerateCategory('Text System') up to its timer: the entry is there
\* while a standard name is missing, the button while nothing is generating
SmartStart ==
  /\ textOps > 0
  /\ ~smart.isGenerating
  /\ \E def \in 1..10 :
       \A i \in 1..Len(textStyles) : textStyles[i].name # ScaleNames[def]
  /\ smart' = [isGenerating |-> TRUE, textStyles |-> textStyles]
  /\ textOps' = textOps - 1
  /\ UNCHANGED << textStyles, typeScaleRatio, baseFontSize, clock, generator, calc, appStill >>

\* ... and after it: the styles the handler was started with, and the new ones
SmartFinish ==
  /\ smart.isGenerating
  /\ LET newTextStyles == generateTextSystem(smart.textStyles, clock)
     IN textStyles' = IF Len(newTextStyles) > 0
                        THEN smart.textStyles \o newTextStyles
                        ELSE textStyles
  /\ smart' = NoSmart
  /\ UNCHANGED << typeScaleRatio, baseFontSize, clock, textOps, generator, calc, appStill >>

\* parseFloat(style.fontSize) is the number before the unit
OptimalLineHeight(fontSize) ==
  IF fontSize[1] >= 32 THEN "1.1"
  ELSE IF fontSize[1] >= 24 THEN "1.2"
  ELSE IF fontSize[1] >= 18 THEN "1.4"
  ELSE IF fontSize[1] >= 14 THEN "1.5"
  ELSE "1.3"

fixLineHeights ==
  /\ textOps > 0
  /\ textStyles' = [k \in 1..Len(textStyles) |->
                      [textStyles[k] EXCEPT
                         !.lineHeight = OptimalLineHeight(textStyles[k].fontSize)]]
  /\ textOps' = textOps - 1
  /\ UNCHANGED << typeScaleRatio, baseFontSize, clock, smart, generator, calc, appStill >>

EditNames == { "Hero", "H1" }

NextText ==
  \/ Tick
  \/ \E value \in TypeScaleRatios : setTypeScaleRatio(value)
  \/ \E value \in BaseFontSizes : setBaseFontSize(value)
  \/ addNewTextStyle
  \/ \E i \in 1..Len(textStyles) : deleteTextStyle(i)
  \/ \E i \in 1..Len(textStyles), name \in EditNames : updateTextStyle(i, name)
  \/ generateTypeScale
  \/ fixLineHeights
  \/ SmartStart
  \/ SmartFinish

SpecText == Init /\ [][NextText]_vars

\* C13: generateTypeScale on an empty set leaves a style for each of the ten
\* names, with the size round(base * ratio^step), the weight and the line
\* height of its step, whatever ratio and base size are selected.
C13_AllTenPresent ==
  [][generateTypeScale /\ textStyles = << >>
       => \A def \in 1..10 : \E i \in 1..Len(textStyles') :
            /\ textStyles'[i].name = ScaleNames[def]
            /\ textStyles'[i].fontSize
                 = << ScaleSizes[typeScaleRatio][baseFontSize][def], "px" >>
            /\ textStyles'[i].fontWeight = ScaleWeights[def]
            /\ textStyles'[i].lineHeight = ScaleLineHeights[def]]_vars

StyleIds(styles) == { styles[i].id : i \in 1..Len(styles) }

\* C23: a style that is in the working set stays in it through every step
\* that is not the delete of its own id.
C23_OnlyDeleteRemoves ==
  [][\A id \in StyleIds(textStyles) :
       \/ id \in StyleIds(textStyles')
       \/ \E i \in 1..Len(textStyles) :
            textStyles[i].id = id /\ deleteTextStyle(i)]_vars

\* C14: the ids of the text styles in the working set differ pairwise.
C14_IdsDistinct ==
  \A i, j \in 1..Len(textStyles) : textStyles[i].id = textStyles[j].id => i = j

\* ---------------------------------------------------------- style generator
\* adjustLightness(hex, adjustment) for the adjustments 10, -10 and 40: the
\* colour goes to HSL, its lightness is moved and clamped to 0..100, and the
\* result is rounded back to hex, in double precision
LightnessTable ==
  { [hex |-> << "#","6","3","6","6","f","1" >>,
   up |-> << "#","9","2","9","4","f","5" >>, down |-> << "#","3","4","3","8","e","d" >>,
   tint |-> << "#","f","f","f","f","f","f" >>],
    [hex |-> << "#","8","b","5","c","f","6" >>,
   up |-> << "#","a","d","8","c","f","9" >>, down |-> << "#","6","9","2","c","f","3" >>,
   tint |-> << "#","f","f","f","f","f","f" >>],
    [hex |-> << "#","f","5","9","e","0","b" >>,
   up |-> << "#","f","7","b","1","3","c" >>, down |-> << "#","c","5","7","f","0","8" >>,
   tint |-> << "#","f","d","e","c","c","f" >>],
    [hex |-> << "#","1","0","b","9","8","1" >>,
   up |-> << "#","1","4","e","8","a","2" >>, down |-> << "#","0","c","8","a","6","0" >>,
   tint |-> << "#","9","e","f","7","d","9" >>],
    [hex |-> << "#","e","f","4","4","4","4" >>,
   up |-> << "#","f","3","7","3","7","3" >>, down |-> << "#","e","b","1","5","1","5" >>,
   tint |-> << "#","f","f","f","f","f","f" >>],
    [hex |-> << "#","3","b","8","2","f","6" >>,
   up |-> << "#","6","c","a","1","f","8" >>, down |-> << "#","0","b","6","3","f","3" >>,
   tint |-> << "#","f","e","f","e","f","f" >>] }

\* an adjustment that darkens where the preview is dark
adjustLightnessByMode(hex, adjustment) ==
  LET row == CHOOSE r \in LightnessTable : r.hex = hex
  IN IF adjustment = 40 THEN row.tint
     ELSE IF (adjustment = 10) # generator.isDarkMode THEN row.up
     ELSE row.down

adjustLightness(hex, adjustment) ==
  LET row == CHOOSE r \in LightnessTable : r.hex = hex
  IN IF adjustment = 10 THEN row.up
     ELSE IF adjustment = -10 THEN row.down
     ELSE row.tint

\* the neutrals: suffix, light, dark
Neutrals ==
  << << "50", << "#","f","f","f","f","f","f" >>, << "#","0","0","0","0","0","0" >> >>,
     << "100", << "#","f","9","f","a","f","b" >>, << "#","1","a","1","a","1","a" >> >>,
     << "200", << "#","f","3","f","4","f","6" >>, << "#","2","6","2","6","2","6" >> >>,
     << "300", << "#","e","5","e","7","e","b" >>, << "#","4","0","4","0","4","0" >> >>,
     << "400", << "#","d","1","d","5","d","b" >>, << "#","5","2","5","2","5","2" >> >>,
     << "500", << "#","9","c","a","3","a","f" >>, << "#","7","3","7","3","7","3" >> >>,
     << "600", << "#","6","b","7","2","8","0" >>, << "#","a","3","a","3","a","3" >> >>,
     << "700", << "#","4","b","5","5","6","3" >>, << "#","d","4","d","4","d","4" >> >>,
     << "800", << "#","3","7","4","1","5","1" >>, << "#","e","5","e","5","e","5" >> >>,
     << "900", << "#","1","f","2","9","3","7" >>, << "#","f","5","f","5","f","5" >> >>,
     << "950", << "#","1","1","1","8","2","7" >>, << "#","f","a","f","a","f","a" >> >>,
     << "1000", << "#","0","0","0","0","0","0" >>, << "#","f","f","f","f","f","f" >> >> >>

\* the semantic colours: name, base
SemanticColors ==
  << << "Success", << "#","1","0","b","9","8","1" >> >>,
     << "Warning", << "#","f","5","9","e","0","b" >> >>,
     << "Error", << "#","e","f","4","4","4","4" >> >>,
     << "Info", << "#","3","b","8","2","f","6" >> >> >>

\* Base, Hover and Pressed of a colour
WithStates(word, base, category) ==
  << Token(<< word, " ", "Base" >>, base, base, category),
     Token(<< word, " ", "Hover" >>, adjustLightness(base, 10),
           adjustLightness(base, 10), category),
     Token(<< word, " ", "Pressed" >>, adjustLightness(base, -10),
           adjustLightness(base, -10), category) >>

generateColorSystem(primary, secondary, tertiary) ==
  WithStates("Primary", primary, << "Brand" >>)
    \o WithStates("Secondary", secondary, << "Brand" >>)
    \o WithStates("Tertiary", tertiary, << "Brand" >>)
    \o [i \in 1..Len(Neutrals) |->
          Token(<< "Neutral", " ", Neutrals[i][1] >>, Neutrals[i][2], Neutrals[i][3],
                << "Neutral" >>)]
    \o WithStates(SemanticColors[1][1], SemanticColors[1][2], << "Semantic" >>)
    \o WithStates(SemanticColors[2][1], SemanticColors[2][2], << "Semantic" >>)
    \o WithStates(SemanticColors[3][1], SemanticColors[3][2], << "Semantic" >>)
    \o WithStates(SemanticColors[4][1], SemanticColors[4][2], << "Semantic" >>)
    \o << Token(<< "Text", " ", "Primary" >>, primary, primary, << "Text" >>),
         Token(<< "Text", " ", "Main" >>, << "#","1","f","2","9","3","7" >>, << "#","f","9","f","a","f","b" >>, << "Text" >>),
         Token(<< "Text", " ", "Subtext" >>, << "#","6","b","7","2","8","0" >>, << "#","9","c","a","3","a","f" >>, << "Text" >>),
         Token(<< "Text", " ", "Inverse" >>, << "#","f","f","f","f","f","f" >>, << "#","0","0","0","0","0","0" >>, << "Text" >>),
         Token(<< "Text", " ", "Disabled" >>, << "#","d","1","d","5","d","b" >>, << "#","4","b","5","5","6","3" >>, << "Text" >>) >>
    \o << Token(<< "Background", " ", "Base" >>, << "#","f","f","f","f","f","f" >>, << "#","0","0","0","0","0","0" >>, << "Background" >>),
         Token(<< "Background", " ", "Surface" >>, << "#","f","9","f","a","f","b" >>, << "#","1","1","1","8","2","7" >>, << "Background" >>),
         Token(<< "Background", " ", "Elevated" >>, << "#","f","f","f","f","f","f" >>, << "#","1","f","2","9","3","7" >>, << "Background" >>),
         Token(<< "Background", " ", "Inverse" >>, << "#","1","1","1","8","2","7" >>, << "#","f","9","f","a","f","b" >>, << "Background" >>),
         Token(<< "Background", " ", "Primary" >>, adjustLightness(primary, 40), << "#","1","f","2","9","3","7" >>, << "Background" >>),
         Token(<< "Background", " ", "Secondary" >>, adjustLightness(secondary, 40), << "#","2","6","2","6","2","6" >>, << "Background" >>),
         Token(<< "Background", " ", "Divider" >>, << "#","e","5","e","7","e","b" >>, << "#","3","7","4","1","5","1" >>, << "Background" >>) >>

\* the colours the inputs and the randomizer can give, and a text that is none
SeedColours == { Indigo, Violet, Amber }
ColourInputs == SeedColours \cup { NotHex }

MaxRemembered == 2

\* the last calls of generateColorSystem: seeds and result
Remember(calls, primary, secondary, tertiary) ==
  LET call == [seeds |-> << primary, secondary, tertiary >>,
               tokens |-> generateColorSystem(primary, secondary, tertiary)]
  IN IF Len(calls) < MaxRemembered THEN Append(calls, call)
     ELSE Append(Tail(calls), call)

\* the render after colors or generationType changed: useMemo computes
\* generatedTokens again
Regenerated(g) ==
  IF g.generationType = "text"
    THEN [g EXCEPT !.generatedTokens = << >>]
    ELSE [g EXCEPT
            !.generatedTokens = generateColorSystem(g.colors[1], g.colors[2], g.colors[3]),
            !.calls = Remember(g.calls, g.colors[1], g.colors[2], g.colors[3])]

\* first render of the style generator
StyleGeneratorMount ==
  /\ ~generator.mounted
  /\ generator' = Regenerated([generator EXCEPT !.mounted = TRUE])
  /\ UNCHANGED << appStill, textVars, calc >>

\* type: 1 primary, 2 secondary, 3 tertiary
handleColorChange(type, value) ==
  /\ generator.mounted /\ generator.left > 0
  /\ generator' = IF IsValidHex(value)
                    THEN Regenerated([generator EXCEPT !.colors[type] = value,
                                                       !.left = @ - 1])
                    ELSE [generator EXCEPT !.left = @ - 1]
  /\ UNCHANGED << appStill, textVars, calc >>

handleRandomize ==
  /\ generator.mounted /\ generator.left > 0
  /\ \E primary \in SeedColours, secondary \in SeedColours, tertiary \in SeedColours :
       /\ secondary # primary /\ tertiary # primary /\ tertiary # secondary
       /\ generator' = Regenerated(
            [generator EXCEPT !.colors = << primary, secondary, tertiary >>,
                              !.left = @ - 1])
  /\ UNCHANGED << appStill, textVars, calc >>

setGenerationType(value) ==
  /\ generator.mounted /\ generator.left > 0
  /\ value # generator.generationType
  /\ generator' = Regenerated([generator EXCEPT !.generationType = value,
                                                !.left = @ - 1])
  /\ UNCHANGED << appStill, textVars, calc >>

setIsDarkMode ==
  /\ generator.mounted /\ generator.left > 0
  /\ generator' = [generator EXCEPT !.isDarkMode = ~generator.isDarkMode,
                                    !.left = @ - 1]
  /\ UNCHANGED << appStill, textVars, calc >>

NextGen ==
  \/ StyleGeneratorMount
  \/ \E type \in 1..3, value \in ColourInputs : handleColorChange(type, value)
  \/ handleRandomize
  \/ \E value \in { "colors", "text", "complete" } : setGenerationType(value)
  \/ setIsDarkMode

SpecGen == Init /\ [][NextGen]_vars

RECURSIVE TokenDataFrom(_, _)
TokenDataFrom(toks, tokenData) ==
  IF toks = << >> THEN tokenData
  ELSE LET token == Head(toks)
           entry == ColorEntry(token.name, token.light, token.dark, << >>)
       IN IF \E i \in 1..Len(tokenData) : tokenData[i].name = token.name
            THEN TokenDataFrom(Tail(toks),
                   [i \in 1..Len(tokenData) |->
                      IF tokenData[i].name = token.name THEN entry
                      ELSE tokenData[i]])
            ELSE TokenDataFrom(Tail(toks), Append(tokenData, entry))

\* the document JSON.parse reads back from the text of generateJSON: an
\* object keyed by token name, without a "colors" array
generateJSON(toks) ==
  [json |-> TRUE, colors |-> << >>, entries |-> TokenDataFrom(toks, << >>)]

\* `  --${token.name}: ${value};`
CssLine(name, value) == << "  --" >> \o name \o << ": " >> \o value \o << ";" >>

\* an export whose .dark block repeats the light values
generateCSSLightTwice(toks) ==
  << << ":root {" >>, << "  /* Light mode tokens */" >> >>
    \o [i \in 1..Len(toks) |-> CssLine(toks[i].name, toks[i].light)]
    \o << << "}" >>, << >>, << ".dark {" >>, << "  /* Dark mode tokens */" >> >>
    \o [i \in 1..Len(toks) |-> CssLine(toks[i].name, toks[i].light)]
    \o << << "}" >> >>

\* the lines of the CSS text
generateCSS(toks) ==
  << << ":root {" >>, << "  /* Light mode tokens */" >> >>
    \o [i \in 1..Len(toks) |-> CssLine(toks[i].name, toks[i].light)]
    \o << << "}" >>, << >>, << ".dark {" >>, << "  /* Dark mode tokens */" >> >>
    \o [i \in 1..Len(toks) |-> CssLine(toks[i].name, toks[i].dark)]
    \o << << "}" >> >>

\* ------------------------------------------------------ function evaluations
\* everything but the record of the evaluation; a behaviour evaluates one
\* function on one input
appVars == << hostVars, pending, mainVars, runs, scanVars, delayed, handover,
              importVars, textVars, generator, opsLeft >>

\* colours a token can hold, and strings that are no colour
CalcColours == { White, Black, Gray800, Gray50, Indigo, Violet, UpperRed,
                 ShortHex, NotHex }

CalcPercents == { -100, -50, -10, 0, 10, 50, 100 }

CalcAdjust(hex, percent) ==
  /\ calc = NoCalc
  /\ calc' = [fn |-> "adjustBrightness", hex |-> hex, percent |-> percent,
              out |-> adjustBrightness(hex, percent)]
  /\ UNCHANGED appVars

\* C18: at zero percent adjustBrightness gives back the very string it got,
\* for every colour the importer accepts as a token value.
C18_IdentityAtZero ==
  calc.fn = "adjustBrightness" /\ calc.percent = 0 /\ IsValidHex(calc.hex)
    => calc.out = calc.hex

\* the offset the result must show on every channel, clamped to 0..255
OffsetHolds(hex, out, amt) ==
  \A k \in 1..3 : Channel(out, k) = Max(0, Min(255, Channel(hex, k) + amt))

Monotone(hex, out, percent) ==
  /\ percent > 0 => \A k \in 1..3 : Channel(out, k) >= Channel(hex, k)
  /\ percent < 0 => \A k \in 1..3 : Channel(out, k) <= Channel(hex, k)

\* C19 (as the code rounds): for a six-digit colour the result is '#' and six
\* hex digits, every channel is the input channel plus Math.round(2.55 * p)
\* in double precision, clamped to 0..255, and the sign of p gives the direction.
C19_OffsetClamped ==
  calc.fn = "adjustBrightness" /\ IsValidHex(calc.hex)
    => /\ IsValidHex(calc.out)
       /\ OffsetHolds(calc.hex, calc.out, RoundAmount(calc.percent))
       /\ Monotone(calc.hex, calc.out, calc.percent)

C19_Witness ==
  /\ calc.fn = "adjustBrightness" /\ calc.hex = Indigo /\ calc.percent = 10
  /\ calc.out = << "#","7","d","8","0","f","f" >>

\* C19 (as stated): the same with 2.55 * p rounded to the nearest integer,
\* the half going up.
C19_OffsetExactRound ==
  calc.fn = "adjustBrightness" /\ IsValidHex(calc.hex)
    => /\ IsValidHex(calc.out)
       /\ OffsetHolds(calc.hex, calc.out, (255 * calc.percent + 50) \div 100)
       /\ Monotone(calc.hex, calc.out, calc.percent)

\* the two copies of getContrastRatio: the accessibility checker's and the
\* token preview's
CalcContrast(color1, color2) ==
  /\ calc = NoCalc
  /\ calc' = [fn |-> "getContrastRatio", color1 |-> color1, color2 |-> color2,
              out |-> getContrastRatio(color1, color2)]
  /\ UNCHANGED appVars

CalcContrastPreview(color1, color2) ==
  /\ calc = NoCalc
  /\ calc' = [fn |-> "getContrastRatioPreview", color1 |-> color1,
              color2 |-> color2, out |-> getContrastRatioPreview(color1, color2)]
  /\ UNCHANGED appVars

LuminanceOf(hex) ==
  getLuminance(Channel(hex, 1), Channel(hex, 2), Channel(hex, 3))

\* the contrast ratio of the evaluated pair is at least tenths / 10
CalcRatioAtLeast(tenths) ==
  RatioAtLeast(LuminanceOf(calc.color1), LuminanceOf(calc.color2), tenths)

\* C20: for two valid colours of ratio r, both copies of getContrastRatio give
\* 'excellent' with AA and AAA for r >= 7, 'good' with AA only for
\* 4.5 <= r < 7, 'poor' for 3 <= r < 4.5 and 'fail' for r < 3, the last two
\* with neither AA nor AAA.
C20_GradesFollowRatio ==
  /\ calc.fn \in { "getContrastRatio", "getContrastRatioPreview" }
  /\ MatchesRgbPattern(calc.color1) /\ MatchesRgbPattern(calc.color2)
  => /\ CalcRatioAtLeast(70)
          => calc.out.grade = "excellent" /\ calc.out.wcagAA /\ calc.out.wcagAAA
     /\ CalcRatioAtLeast(45) /\ ~CalcRatioAtLeast(70)
          => calc.out.grade = "good" /\ calc.out.wcagAA /\ ~calc.out.wcagAAA
     /\ CalcRatioAtLeast(30) /\ ~CalcRatioAtLeast(45)
          => calc.out.grade = "poor" /\ ~calc.out.wcagAA /\ ~calc.out.wcagAAA
     /\ ~CalcRatioAtLeast(30)
          => calc.out.grade = "fail" /\ ~calc.out.wcagAA /\ ~calc.out.wcagAAA

\* white on indigo, ratio 4.47: 'poor', just below AA
C20_Witness ==
  /\ calc.fn = "getContrastRatio"
  /\ calc.color1 = White /\ calc.color2 = Indigo
  /\ calc.out.grade = "poor" /\ ~calc.out.wcagAA

\* styles to clean up: two non-standard and two standard names on one key,
\* and two styles on another
CleanupPool ==
  { TextStyle(<< "text", 1 >>, "Hero", 49, 700, "1.1", "heading"),
    TextStyle(<< "text", 2 >>, "Display", 49, 400, "1.5", "heading"),
    TextStyle(<< "text", 3, 0 >>, "H1", 49, 700, "1.1", "heading"),
    TextStyle(<< "text", 3, 1 >>, "H2", 49, 600, "1.15", "heading"),
    TextStyle(<< "text", 4 >>, "New Text Style", 16, 400, "1.5", "body"),
    TextStyle(<< "text", 5, 7 >>, "Body M", 16, 400, "1.5", "body") }

MaxCleanup == 3

CleanupInputs ==
  UNION { [1..n -> CleanupPool] : n \in 0..MaxCleanup }

CalcCleanup(styles) ==
  /\ calc = NoCalc
  /\ calc' = [fn |-> "cleanupDuplicates", styles |-> styles,
              out |-> cleanupDuplicates(styles)]
  /\ UNCHANGED appVars

SeqRange(s) == { s[i] : i \in 1..Len(s) }

\* C12: cleanupDuplicates keeps at most one style per (fontSize, category),
\* each as it was in the input, and on a key where a standard-named and a
\* differently named style collide the one kept has a standard name,
\* whatever their order.
C12_StandardNameWins ==
  calc.fn = "cleanupDuplicates"
    => /\ \A i, j \in 1..Len(calc.out) :
            StyleKey(calc.out[i]) = StyleKey(calc.out[j]) => i = j
       /\ SeqRange(calc.out) \subseteq SeqRange(calc.styles)
       /\ \A a, b \in SeqRange(calc.styles) :
            /\ StyleKey(a) = StyleKey(b)
            /\ a.name \in StandardNames /\ b.name \notin StandardNames
            => \E kept \in SeqRange(calc.out) :
                 StyleKey(kept) = StyleKey(a) /\ kept.name \in StandardNames

\* a differently named style first, the generated H1 of the same key later
C12_Witness ==
  /\ calc.fn = "cleanupDuplicates"
  /\ Len(calc.styles) = 2
  /\ calc.styles[1].name = "Hero" /\ calc.styles[2].name = "H1"
  /\ calc.out = << calc.styles[2] >>

\* a "colors" document whose one entry is named like the legacy key the
\* importer skips
FileTextName ==
  [json |-> TRUE,
   colors |-> << ColorEntry(<< "text" >>, Gray800, Gray50,
                            << "/", "Text", "/", "text" >>) >>,
   entries |-> << >>]

JsonFiles == { file \in Files : file.json } \cup { FileTextName }

CalcParse(file) ==
  /\ calc = NoCalc
  /\ calc' = [fn |-> "parseTokenData", file |-> file,
              out |-> parseTokenData(file)]
  /\ UNCHANGED appVars

\* the export of what an import gave
CalcCSS(file) ==
  /\ calc = NoCalc
  /\ calc' = [fn |-> "generateCSS", file |-> file,
              tokens |-> parseTokenData(file),
              out |-> generateCSS(parseTokenData(file))]
  /\ UNCHANGED appVars

CalcJSON(file) ==
  /\ calc = NoCalc
  /\ calc' = [fn |-> "generateJSON", file |-> file,
              tokens |-> parseTokenData(file),
              out |-> generateJSON(parseTokenData(file)),
              back |-> parseTokenData(generateJSON(parseTokenData(file)))]
  /\ UNCHANGED appVars

\* C15: a document with a "colors" array gives one token per entry, in the
\* order of the entries, with the entry's name and light value, entries whose
\* dark is null included.
C15_OneTokenPerEntry ==
  calc.fn = "parseTokenData" /\ calc.file.entries = << >>
    => /\ Len(calc.out) = Len(calc.file.colors)
       /\ \A i \in 1..Len(calc.out) :
            /\ calc.out[i].name = calc.file.colors[i].name
            /\ calc.out[i].light = calc.file.colors[i].light

\* the declarations of the block that a line opens: the lines from the one
\* after it to the next closing brace that begin a custom property
BlockStart(css, opening) == CHOOSE i \in 1..Len(css) : css[i] = << opening >>

BlockEnd(css, opening) ==
  CHOOSE j \in (BlockStart(css, opening) + 1)..Len(css) :
    /\ css[j] = << "}" >>
    /\ \A k \in (BlockStart(css, opening) + 1)..(j - 1) : css[k] # << "}" >>

IsDeclaration(line) == line # << >> /\ Head(line) = "  --"

Declarations(css, opening) ==
  SelectSeq(SubSeq(css, BlockStart(css, opening) + 1, BlockEnd(css, opening) - 1),
            IsDeclaration)

\* C16: for what an import gave, the :root block of the CSS export holds one
\* --name declaration per token with its light value and the .dark block one
\* per token with its dark value, as many in each block as there are tokens.
C16_OneDeclarationPerToken ==
  calc.fn = "generateCSS"
    => LET root == Declarations(calc.out, ":root {")
           dark == Declarations(calc.out, ".dark {")
       IN /\ Len(root) = Len(calc.tokens)
          /\ Len(dark) = Len(calc.tokens)
          /\ \A i \in 1..Len(calc.tokens) :
               /\ root[i] = CssLine(calc.tokens[i].name, calc.tokens[i].light)
               /\ dark[i] = CssLine(calc.tokens[i].name, calc.tokens[i].dark)

C16_Witness ==
  /\ calc.fn = "generateCSS" /\ calc.file = FileLegacy
  /\ Len(calc.tokens) = 1
  /\ Declarations(calc.out, ".dark {") = << CssLine(<< "primary" >>, IndigoLt) >>

Triple(token) == << token.name, token.light, token.dark >>

\* C17: reading the JSON export back with parseTokenData gives the exported
\* (name, light, dark) triples, one token per exported token (here already
\* for the token sets whose names differ pairwise).
C17_JsonRoundTrip ==
  (/\ calc.fn = "generateJSON"
   /\ \A i, j \in 1..Len(calc.tokens) :
        (calc.tokens[i].name = calc.tokens[j].name => i = j))
    => /\ Len(calc.back) = Len(calc.tokens)
       /\ { Triple(calc.back[i]) : i \in 1..Len(calc.back) }
            = { Triple(calc.tokens[i]) : i \in 1..Len(calc.tokens) }

\* a pair of colours taken both ways, by the accessibility checker and by
\* the design-system editor
CalcBothWays(color1, color2) ==
  /\ calc = NoCalc
  /\ calc' = [fn |-> "contrastBothWays", color1 |-> color1, color2 |-> color2,
              ab |-> getContrastRatio(color1, color2),
              ba |-> getContrastRatio(color2, color1),
              editorAb |-> getContrastRatioEditor(color1, color2),
              editorBa |-> getContrastRatioEditor(color2, color1)]
  /\ UNCHANGED appVars

\* C21: the contrast of (a, b) is the contrast of (b, a), ratio, grade and
\* both flags, for valid and malformed colours alike.
C21_ContrastSymmetric ==
  calc.fn = "contrastBothWays"
    => calc.ab = calc.ba /\ calc.editorAb = calc.editorBa

\* a dark colour first, a light one second
C21_Witness ==
  /\ calc.fn = "contrastBothWays"
  /\ calc.color1 = Gray800 /\ calc.color2 = White
  /\ calc.ba.grade = "excellent" /\ calc.ab.ratio = calc.ba.ratio
  /\ calc.ab.ratio[1] > calc.ab.ratio[2]

\* ---------------------------------------------------- smart style generator
standardTextColors ==
  << << "Text", " ", "Main" >>, << "Text", " ", "Subtext" >>,
     << "Text", " ", "Inverse" >>, << "Text", " ", "Disabled" >>,
     << "Text", " ", "Primary" >> >>

SemanticStates == << "Base", "Hover", "Pressed" >>

\* semanticBase of generateSemanticColors: the same four colours
semanticBase == SemanticColors

\* 'Success Base', 'Success Hover', ... 'Info Pressed'
standardSemanticColors ==
  [k \in 1..12 |->
     << semanticBase[((k - 1) \div 3) + 1][1], " ", SemanticStates[((k - 1) % 3) + 1] >>]

\* backgrounds of generateBackgroundColors: name, light, dark
backgrounds ==
  << << "Base", White, Black >>,
     << "Surface", Gray50, Gray900 >>,
     << "Elevated", White, Gray800 >>,
     << "Inverse", Gray900, Gray50 >>,
     << "Divider", << "#","e","5","e","7","e","b" >>, << "#","3","7","4","1","5","1" >> >> >>

standardBackgroundColors ==
  [k \in 1..Len(backgrounds) |-> << "Background", " ", backgrounds[k][1] >>]

\* neutrals of generateNeutralScale: the scale from 50 to 950
smartNeutrals == SubSeq(Neutrals, 1, 11)

standardNeutralColors ==
  [k \in 1..Len(smartNeutrals) |-> << "Neutral", " ", smartNeutrals[k][1] >>]

\* tokens.some(t => t.name === name)
HasName(toks, name) == \E i \in 1..Len(toks) : toks[i].name = name

\* names.filter(name => !existingTokenNames.has(name))
MissingNames(names, toks) ==
  LET Absent(name) == ~HasName(toks, name)
  IN SelectSeq(names, Absent)

\* the brand colours that are not themselves a state
BrandBases(toks) ==
  LET Base(t) == IsBrand(t) /\ ~Includes(t.name, "Hover") /\ ~Includes(t.name, "Pressed")
  IN SelectSeq(toks, Base)

\* missingBrandStates: a hover and a pressed name for each brand colour, as
\* far as no token has the name
missingBrandStates(toks) ==
  LET names == MapSeq(StatePairs(BrandBases(toks)), LAMBDA t : t.name)
  IN MissingNames(names, toks)

\* missingTextStyles
missingTextStyles(styles) ==
  LET Absent(name) == \A i \in 1..Len(styles) : styles[i].name # name
  IN SelectSeq(ScaleNames, Absent)

Category(name, items) == [name |-> name, count |-> Len(items)]

Reported(categories) ==
  LET Present(c) == c.count > 0
  IN SelectSeq(categories, Present)

\* missingCategories: the categories with something missing, in the order of
\* the checks
missingCategories(toks, styles) ==
  Reported(<< Category("Text Colors", MissingNames(standardTextColors, toks)),
              Category("Semantic Colors", MissingNames(standardSemanticColors, toks)),
              Category("Brand States", missingBrandStates(toks)),
              Category("Background Colors", MissingNames(standardBackgroundColors, toks)),
              Category("Neutral Scale", MissingNames(standardNeutralColors, toks)),
              Category("Text System", missingTextStyles(styles)) >>)

\* tokens.find(t => t.name.includes('Primary') && t.category === 'Brand')
PrimaryToken(toks) ==
  LET Found(t) == Includes(t.name, "Primary") /\ IsBrand(t)
  IN SelectSeq(toks, Found)

TextColorToken(name, toks) ==
  IF name = << "Text", " ", "Main" >> THEN Token(name, Gray800, Gray50, << "Text" >>)
  ELSE IF name = << "Text", " ", "Subtext" >>
    THEN Token(name, << "#","6","b","7","2","8","0" >>, << "#","9","c","a","3","a","f" >>,
               << "Text" >>)
  ELSE IF name = << "Text", " ", "Inverse" >> THEN Token(name, White, Black, << "Text" >>)
  ELSE IF name = << "Text", " ", "Disabled" >>
    THEN Token(name, << "#","d","1","d","5","d","b" >>, << "#","4","b","5","5","6","3" >>,
               << "Text" >>)
  ELSE IF PrimaryToken(toks) = << >> THEN Token(name, Indigo, Indigo, << "Text" >>)
  ELSE Token(name, OrElse(PrimaryToken(toks)[1].light, Indigo),
             OrElse(PrimaryToken(toks)[1].dark, Indigo), << "Text" >>)

generateTextColors(toks) ==
  LET missing == MissingNames(standardTextColors, toks)
  IN [k \in 1..Len(missing) |-> TextColorToken(missing[k], toks)]

SemanticToken(k) ==
  LET base == semanticBase[((k - 1) \div 3) + 1][2]
      state == SemanticStates[((k - 1) % 3) + 1]
      color == IF state = "Hover" THEN adjustBrightness(base, 10)
               ELSE IF state = "Pressed" THEN adjustBrightness(base, -10)
               ELSE base
  IN Token(standardSemanticColors[k], color, color, << "Semantic" >>)

generateSemanticColors(toks) ==
  LET Absent(t) == ~HasName(toks, t.name)
  IN SelectSeq([k \in 1..12 |-> SemanticToken(k)], Absent)

\* a variant that adds both states of every brand colour, present or not
generateBrandStatesUnchecked(toks) == StatePairs(BrandBases(toks))

generateBrandStates(toks) ==
  LET Absent(t) == ~HasName(toks, t.name)
  IN SelectSeq(StatePairs(BrandBases(toks)), Absent)

generateBackgroundColors(toks) ==
  LET Absent(t) == ~HasName(toks, t.name)
  IN SelectSeq([k \in 1..Len(backgrounds) |->
                  Token(standardBackgroundColors[k], backgrounds[k][2],
                        backgrounds[k][3], << "Background" >>)], Absent)

generateNeutralScale(toks) ==
  LET Absent(t) == ~HasName(toks, t.name)
  IN SelectSeq([k \in 1..Len(smartNeutrals) |->
                  Token(standardNeutralColors[k], smartNeutrals[k][2],
                        smartNeutrals[k][3], << "Neutral" >>)], Absent)

\* what the generators of the smart generator add, category by category
Generated(toks, styles, now) ==
  Reported(<< Category("Text Colors", generateTextColors(toks)),
              Category("Semantic Colors", generateSemanticColors(toks)),
              Category("Brand States", generateBrandStates(toks)),
              Category("Background Colors", generateBackgroundColors(toks)),
              Category("Neutral Scale", generateNeutralScale(toks)),
              Category("Text System", generateTextSystem(styles, now)) >>)

\* handleGenerateAll after its delay: the two arrays it hands to its callbacks,
\* or the arrays as they are where it hands over nothing
handleGenerateAll(toks, styles, now) ==
  LET allNewTokens == generateTextColors(toks) \o generateSemanticColors(toks)
                        \o generateBrandStates(toks) \o generateBackgroundColors(toks)
                        \o generateNeutralScale(toks)
      allNewTextStyles == generateTextSystem(styles, now)
  IN [tokens |-> IF Len(allNewTokens) > 0 THEN toks \o allNewTokens ELSE toks,
      textStyles |-> IF Len(allNewTextStyles) > 0 THEN styles \o allNewTextStyles
                     ELSE styles,
      added |-> Len(allNewTokens) + Len(allNewTextStyles)]

MaxSmartTokens == 2

SmartTokenPool ==
  { Token(<< "Primary" >>, Indigo, IndigoLt, << "Brand" >>),
    Token(<< "Primary", " ", "Hover" >>, Violet, Violet, << "Brand" >>),
    Token(<< "Success" >>, Amber, Amber, << "Brand" >>),
    Token(<< "Text", " ", "Main" >>, Black, White, << "Text" >>),
    Token(<< "Success", " ", "Hover" >>, Amber, Amber, << "Semantic" >>),
    Token(<< "Neutral", " ", "500" >>, Gray800, Gray50, << "Neutral" >>) }

SmartTokenInputs == UNION { [1..n -> SmartTokenPool] : n \in 0..MaxSmartTokens }

SmartTextInputs ==
  { << >>,
    << TextStyle(<< "text", 0, 0 >>, "New Text Style", 16, 400, "1.5", "body") >>,
    << TextStyle(<< "text", 0, 0 >>, "H1", 49, 700, "1.1", "heading") >>,
    << TextStyle(<< "text", 0, 0 >>, "New Text Style", 16, 400, "1.5", "body"),
       TextStyle(<< "text", 0, 1 >>, "Body M", 16, 400, "1.5", "body") >> }

\* handleGenerateAll on a token and a text-style set, and once more on what
\* the first generation has handed over
CalcGenerateAll(toks, styles) ==
  /\ calc = NoCalc
  /\ LET first == handleGenerateAll(toks, styles, clock)
         second == handleGenerateAll(first.tokens, first.textStyles, clock)
     IN calc' = [fn |-> "handleGenerateAll", tokens |-> toks, textStyles |-> styles,
                 missing |-> missingCategories(toks, styles),
                 generated |-> Generated(toks, styles, clock),
                 missingAfter |-> missingCategories(first.tokens, first.textStyles),
                 added |-> first.added,
                 addedAgain |-> second.added]
  /\ UNCHANGED appVars

\* C28: after handleGenerateAll no category is missing, each generator adds
\* as many items as were reported missing for its category, and a second
\* generation adds nothing.
C28_GenerateAllIdempotent ==
  calc.fn = "handleGenerateAll"
    => /\ calc.missingAfter = << >>
       /\ calc.generated = calc.missing
       /\ calc.addedAgain = 0

\* a set with a brand colour of which one state exists, and text styles of
\* which some are missing
C28_Witness ==
  /\ calc.fn = "handleGenerateAll"
  /\ \E i \in 1..Len(calc.missing) :
       calc.missing[i].name = "Brand States" /\ calc.missing[i].count = 1
  /\ \E i \in 1..Len(calc.missing) :
       calc.missing[i].name = "Text System" /\ calc.missing[i].count = 9
  /\ calc.added > 0

NextCalc ==
  \/ \E toks \in SmartTokenInputs, styles \in SmartTextInputs :
       CalcGenerateAll(toks, styles)
  \/ \E color1 \in CalcColours, color2 \in CalcColours :
       CalcBothWays(color1, color2)
  \/ \E file \in JsonFiles : CalcParse(file)
  \/ \E file \in JsonFiles : CalcCSS(file)
  \/ \E file \in JsonFiles : CalcJSON(file)
  \/ \E styles \in CleanupInputs : CalcCleanup(styles)
  \/ \E hex \in CalcColours, percent \in CalcPercents : CalcAdjust(hex, percent)
  \/ \E color1 \in CalcColours, color2 \in CalcColours :
       CalcContrast(color1, color2)
  \/ \E color1 \in CalcColours, color2 \in CalcColours :
       CalcContrastPreview(color1, color2)

SpecCalc == Init /\ [][NextCalc]_vars

====
